---- MODULE Spec2Model ----
(***************************************************************************)
(* Scene graph of rg3d: src/scene/graph.rs (Graph) and src/scene/mod.rs    *)
(* (PhysicsBinder, Scene).  The generational pool, the node payload and    *)
(* the physics world are collaborators whose source is not part of the     *)
(* modelled files; they are modelled from their documented contract.       *)
(***************************************************************************)
EXTENDS Integers, Sequences, FiniteSets, TLC

\* ------------------------------------------------------------------ bounds

\* Total number of Pool::spawn calls on the node pool (root included).
MaxSpawns == 4
\* Spawn calls (root included) in the runs whose nodes carry data of their
\* own: local transforms, lifetimes.
MaxDataNodes == 3
\* Spawn calls (root included) in the runs of a whole scene.
MaxSceneNodes == 2
\* Total number of rigid bodies ever created in the physics world.
MaxBodies == 2
\* Transforms are affine maps x |-> a*x + b over the integers modulo Modulus.
Modulus == 3
\* Largest lifetime a node is created with, and largest dt of an update.
MaxLifetime == 2
\* Total number of animations in the animation container.
MaxAnimations == 2
\* Rigid bodies and animations in the runs of whole frames.
MaxFrameBodies == 1
MaxFrameAnimations == 1

\* ------------------------------------------------------------------ handles

\* Handle<T>: (index, generation); Handle::NONE has index 0 and the invalid
\* generation 0.  Slots are numbered from 1 here.
NONE == [index |-> 0, generation |-> 0]

is_none(h) == h = NONE
is_some(h) == h # NONE

\* Option<T>: <<>> is None, <<x>> is Some(x).
None == <<>>
Some(x) == <<x>>
IsSomeOpt(o) == Len(o) = 1
Unwrap(o) == o[1]

\* ------------------------------------------------------------------ Pool<T>

\* Pool { records: Vec<PoolRecord>, free_stack: Vec<index> }.
EmptyPool == [records |-> <<>>, free_stack |-> <<>>]

pool_get_capacity(pool) == Len(pool.records)

pool_is_valid_handle(pool, h) ==
    /\ h.index \in 1..Len(pool.records)
    /\ pool.records[h.index].generation = h.generation
    /\ IsSomeOpt(pool.records[h.index].payload)

\* Pool::at(i): the payload of slot i, when occupied.
pool_at(pool, i) ==
    IF i \in 1..Len(pool.records) THEN pool.records[i].payload ELSE None

pool_handle_from_index(pool, i) ==
    IF i \in 1..Len(pool.records) /\ IsSomeOpt(pool.records[i].payload)
    THEN [index |-> i, generation |-> pool.records[i].generation]
    ELSE NONE

\* The handle the next spawn returns: the most recently freed slot with its
\* generation bumped, or a fresh slot of generation 1.
pool_spawn_handle(pool) ==
    IF pool.free_stack # <<>>
    THEN LET i == pool.free_stack[Len(pool.free_stack)]
         IN [index |-> i, generation |-> pool.records[i].generation + 1]
    ELSE [index |-> Len(pool.records) + 1, generation |-> 1]

pool_spawn(pool, payload) ==
    LET h == pool_spawn_handle(pool)
    IN IF pool.free_stack # <<>>
       THEN [records |-> [pool.records EXCEPT ![h.index] =
                             [generation |-> h.generation, payload |-> Some(payload)]],
             free_stack |-> SubSeq(pool.free_stack, 1, Len(pool.free_stack) - 1)]
       ELSE [records |-> Append(pool.records,
                             [generation |-> 1, payload |-> Some(payload)]),
             free_stack |-> pool.free_stack]

\* Pool::free: the slot loses its payload and goes on the free stack; the
\* generation is bumped by the spawn that reuses it.
pool_free(pool, h) ==
    IF pool_is_valid_handle(pool, h)
    THEN [records |-> [pool.records EXCEPT ![h.index].payload = None],
          free_stack |-> Append(pool.free_stack, h.index)]
    ELSE pool

pool_borrow(pool, h) == Unwrap(pool.records[h.index].payload)

pool_set(pool, h, payload) ==
    [pool EXCEPT !.records[h.index].payload = Some(payload)]

\* Pool::pair_iter: the handles of the occupied slots.
pool_handles(pool) ==
    { [index |-> i, generation |-> pool.records[i].generation] :
        i \in { j \in 1..Len(pool.records) : IsSomeOpt(pool.records[j].payload) } }

pool_alive_count(pool) == Cardinality(pool_handles(pool))

RECURSIVE SumGenerations(_)
SumGenerations(records) ==
    IF records = <<>> THEN 0
    ELSE records[1].generation + SumGenerations(Tail(records))

\* Number of spawn calls the pool has served.
pool_spawn_count(pool) == SumGenerations(pool.records)

\* ------------------------------------------------------------------ Mat4

\* A transform matrix is the affine map x |-> a*x + b, written <<a, b>>; the
\* product is composition (the product of the matrices [[a, b], [0, 1]]).
IDENTITY == <<1, 0>>
mat_mul(m, n) == <<(m[1] * n[1]) % Modulus, (m[1] * n[2] + m[2]) % Modulus>>

\* Vec3::ZERO
ZERO == 0

\* ------------------------------------------------------------------ Node

\* Node::Base(Base::default()): no name, no parent, no children, identity
\* transform, visible, no lifetime, no resource.  kind is the variant of the
\* node, "Base" or "Mesh"; surfaces is the surface list of a mesh, each
\* surface [data, bones] with the handles of its bones.
DefaultBase ==
    [ kind                    |-> "Base",
      name                    |-> "",
      parent                  |-> NONE,
      children                |-> <<>>,
      position                |-> ZERO,
      scale                   |-> 1,
      visibility              |-> TRUE,
      global_transform        |-> IDENTITY,
      global_visibility       |-> TRUE,
      lifetime                |-> None,
      resource                |-> None,
      original                |-> NONE,
      is_resource_instance    |-> FALSE,
      inv_bind_pose_transform |-> IDENTITY,
      surfaces                |-> <<>> ]

\* Transform::matrix() of the node's local transform.
local_matrix(base) == <<base.scale, base.position>>

\* ------------------------------------------------------------------ Graph

\* An execution of Graph code: the graph it works on and how far it got.
\* status is "ok" while the code runs, "panicked" after a fatal stop (a
\* borrow of an invalid handle), "hung" when a loop never ends.
Exec(g) == [graph |-> g, status |-> "ok"]
Panic(e) == [e EXCEPT !.status = "panicked"]
Hang(e) == [e EXCEPT !.status = "hung"]

base_of(g, h) == pool_borrow(g.pool, h)
set_base(g, h, b) == [g EXCEPT !.pool = pool_set(g.pool, h, b)]

\* Vec::iter().position(|h| *h == x): index of the first occurrence, or 0.
position_of(seq, x) ==
    IF \E i \in 1..Len(seq) : seq[i] = x
    THEN CHOOSE i \in 1..Len(seq) : seq[i] = x /\ \A j \in 1..(i - 1) : seq[j] # x
    ELSE 0

\* Vec::remove(i)
vec_remove(seq, i) == SubSeq(seq, 1, i - 1) \o SubSeq(seq, i + 1, Len(seq))

\* Graph::default: no root, an empty pool.
graph_default == [root |-> NONE, pool |-> EmptyPool, stack |-> <<>>]

\* Graph::new
graph_new ==
    LET root == [DefaultBase EXCEPT !.name = "__ROOT__"]
    IN [root |-> pool_spawn_handle(EmptyPool),
        pool |-> pool_spawn(EmptyPool, root), stack |-> <<>>]

\* Graph::is_valid_handle
is_valid_handle(g, h) == pool_is_valid_handle(g.pool, h)

\* Graph::unlink_internal
unlink_internal(e, node_handle) ==
    IF e.status # "ok" THEN e
    ELSE IF ~is_valid_handle(e.graph, node_handle) THEN Panic(e)
    ELSE LET node == base_of(e.graph, node_handle)
             parent_handle == node.parent
             g1 == set_base(e.graph, node_handle, [node EXCEPT !.parent = NONE])
         IN IF is_some(parent_handle)
            THEN IF ~is_valid_handle(g1, parent_handle)
                 THEN Panic([e EXCEPT !.graph = g1])
                 ELSE LET parent == base_of(g1, parent_handle)
                          i == position_of(parent.children, node_handle)
                      IN IF i # 0
                         THEN [e EXCEPT !.graph = set_base(g1, parent_handle,
                                 [parent EXCEPT !.children = vec_remove(parent.children, i)])]
                         ELSE [e EXCEPT !.graph = g1]
            ELSE [e EXCEPT !.graph = g1]

\* link_nodes that forgets to detach the child from its former parent.
link_nodes_keeps_old_link(e, child_handle, parent_handle) ==
    IF e.status # "ok" THEN e
    ELSE IF ~is_valid_handle(e.graph, child_handle) THEN Panic(e)
    ELSE LET child == base_of(e.graph, child_handle)
             g2 == set_base(e.graph, child_handle,
                            [child EXCEPT !.parent = parent_handle])
         IN IF ~is_valid_handle(g2, parent_handle)
            THEN Panic([e EXCEPT !.graph = g2])
            ELSE LET parent == base_of(g2, parent_handle)
                 IN [e EXCEPT !.graph = set_base(g2, parent_handle,
                       [parent EXCEPT !.children = Append(parent.children, child_handle)])]

\* link_nodes that puts the child in front of the parent's children.
link_nodes_pushes_front(e, child_handle, parent_handle) ==
    LET e1 == unlink_internal(e, child_handle)
    IN IF e1.status # "ok" THEN e1
       ELSE LET child == base_of(e1.graph, child_handle)
                g2 == set_base(e1.graph, child_handle,
                               [child EXCEPT !.parent = parent_handle])
            IN IF ~is_valid_handle(g2, parent_handle)
               THEN Panic([e1 EXCEPT !.graph = g2])
               ELSE LET parent == base_of(g2, parent_handle)
                    IN [e1 EXCEPT !.graph = set_base(g2, parent_handle,
                          [parent EXCEPT !.children = <<child_handle>> \o parent.children])]

\* Graph::link_nodes
link_nodes(e, child_handle, parent_handle) ==
    LET e1 == unlink_internal(e, child_handle)
    IN IF e1.status # "ok" THEN e1
       ELSE LET child == base_of(e1.graph, child_handle)
                g2 == set_base(e1.graph, child_handle,
                               [child EXCEPT !.parent = parent_handle])
            IN IF ~is_valid_handle(g2, parent_handle)
               THEN Panic([e1 EXCEPT !.graph = g2])
               ELSE LET parent == base_of(g2, parent_handle)
                    IN [e1 EXCEPT !.graph = set_base(g2, parent_handle,
                          [parent EXCEPT !.children = Append(parent.children, child_handle)])]

\* Graph::add_node
add_node(e, node) ==
    IF e.status # "ok" THEN e
    ELSE LET handle == pool_spawn_handle(e.graph.pool)
             g1 == [e.graph EXCEPT !.pool = pool_spawn(e.graph.pool, node)]
         IN link_nodes([e EXCEPT !.graph = g1], handle, g1.root)

\* unlink_node that leaves the local position as it was.
unlink_node_keeps_position(e, node_handle) ==
    LET e1 == unlink_internal(e, node_handle)
    IN link_nodes(e1, node_handle, e1.graph.root)

\* Graph::unlink_node
unlink_node(e, node_handle) ==
    LET e1 == unlink_internal(e, node_handle)
        e2 == link_nodes(e1, node_handle, e1.graph.root)
    IN IF e2.status # "ok" THEN e2
       ELSE LET node == base_of(e2.graph, node_handle)
            IN [e2 EXCEPT !.graph = set_base(e2.graph, node_handle,
                                             [node EXCEPT !.position = ZERO])]

\* The loop of Graph::remove_node: pop a handle, push its children, free it.
RECURSIVE remove_node_loop(_)
remove_node_loop(e) ==
    IF e.status # "ok" \/ e.graph.stack = <<>> THEN e
    ELSE LET n == Len(e.graph.stack)
             handle == e.graph.stack[n]
             popped == SubSeq(e.graph.stack, 1, n - 1)
         IN IF ~is_valid_handle(e.graph, handle)
            THEN Panic([e EXCEPT !.graph.stack = popped])
            ELSE LET base == base_of(e.graph, handle)
                 IN remove_node_loop([e EXCEPT
                        !.graph.stack = popped \o base.children,
                        !.graph.pool = pool_free(e.graph.pool, handle)])

\* remove_node that frees the subtree without unlinking it from its parent.
remove_node_keeps_parent_link(e, node_handle) ==
    IF e.status # "ok" THEN e
    ELSE remove_node_loop([e EXCEPT !.graph.stack = <<node_handle>>])

\* Graph::remove_node
remove_node(e, node_handle) ==
    LET e1 == unlink_internal(e, node_handle)
    IN IF e1.status # "ok" THEN e1
       ELSE remove_node_loop([e1 EXCEPT !.graph.stack = <<node_handle>>])

\* A turn that multiplies in the wrong order: local matrix first.
update_transforms_visit_local_first(g, handle) ==
    LET parent_handle == base_of(g, handle).parent
        parent_global_transform ==
            IF is_some(parent_handle)
            THEN base_of(g, parent_handle).global_transform ELSE IDENTITY
        parent_visibility ==
            IF is_some(parent_handle)
            THEN base_of(g, parent_handle).global_visibility ELSE TRUE
        base == base_of(g, handle)
        updated == [base EXCEPT
            !.global_transform = mat_mul(local_matrix(base), parent_global_transform),
            !.global_visibility = parent_visibility /\ base.visibility]
    IN [set_base(g, handle, updated) EXCEPT !.stack = g.stack \o updated.children]

\* One turn of the loop of Graph::update_transforms, for a popped handle
\* whose borrows succeed: globals from the parent's globals, then the
\* children pushed.
update_transforms_visit(g, handle) ==
    LET parent_handle == base_of(g, handle).parent
        parent_global_transform ==
            IF is_some(parent_handle)
            THEN base_of(g, parent_handle).global_transform ELSE IDENTITY
        parent_visibility ==
            IF is_some(parent_handle)
            THEN base_of(g, parent_handle).global_visibility ELSE TRUE
        base == base_of(g, handle)
        updated == [base EXCEPT
            !.global_transform = mat_mul(parent_global_transform, local_matrix(base)),
            !.global_visibility = parent_visibility /\ base.visibility]
    IN [set_base(g, handle, updated) EXCEPT !.stack = g.stack \o updated.children]

\* The loop of Graph::update_transforms.  turns counts the turns left before
\* the loop is known never to end: with every handle listed in one children
\* sequence at most, a loop that pops more handles than the pool has slots
\* pops one of them twice and then repeats for ever.
RECURSIVE update_transforms_loop(_, _)
update_transforms_loop(e, turns) ==
    IF e.status # "ok" \/ e.graph.stack = <<>> THEN e
    ELSE IF turns = 0 THEN Hang(e)
    ELSE LET n == Len(e.graph.stack)
             handle == e.graph.stack[n]
             g0 == [e.graph EXCEPT !.stack = SubSeq(e.graph.stack, 1, n - 1)]
         IN IF ~is_valid_handle(g0, handle)
            THEN Panic([e EXCEPT !.graph = g0])
            ELSE IF is_some(base_of(g0, handle).parent)
                    /\ ~is_valid_handle(g0, base_of(g0, handle).parent)
            THEN Panic([e EXCEPT !.graph = g0])
            ELSE update_transforms_loop(
                    [e EXCEPT !.graph = update_transforms_visit(g0, handle)], turns - 1)

\* The handles the loop of Graph::update_transforms pops and works on, in the
\* order of the turns; out is what was worked on so far, turns as in
\* update_transforms_loop (a loop that never ends is cut off there).
RECURSIVE update_transforms_order(_, _, _)
update_transforms_order(e, turns, out) ==
    IF e.status # "ok" \/ e.graph.stack = <<>> \/ turns = 0 THEN out
    ELSE LET n == Len(e.graph.stack)
             handle == e.graph.stack[n]
             g0 == [e.graph EXCEPT !.stack = SubSeq(e.graph.stack, 1, n - 1)]
         IN IF ~is_valid_handle(g0, handle) THEN out
            ELSE IF is_some(base_of(g0, handle).parent)
                    /\ ~is_valid_handle(g0, base_of(g0, handle).parent)
            THEN out
            ELSE update_transforms_order(
                    [e EXCEPT !.graph = update_transforms_visit(g0, handle)],
                    turns - 1, Append(out, handle))

\* Graph::update_transforms
update_transforms(e) ==
    IF e.status # "ok" THEN e
    ELSE update_transforms_loop([e EXCEPT !.graph.stack = <<e.graph.root>>],
                                pool_get_capacity(e.graph.pool))

\* A removal test that lets a lifetime of exactly zero live on.
lifetime_expired_strict(base) ==
    IF IsSomeOpt(base.lifetime) THEN Unwrap(base.lifetime) < 0 ELSE FALSE

\* The removal test of the second scan of Graph::update_nodes.
lifetime_expired(base) ==
    IF IsSomeOpt(base.lifetime) THEN Unwrap(base.lifetime) <= 0 ELSE FALSE

\* The first loop of Graph::update_nodes: every live node's lifetime, when
\* present, goes down by dt.  (Camera and particle system updates touch no
\* modelled field.)
tick_lifetimes(g, dt) ==
    [g EXCEPT !.pool.records =
        [i \in 1..Len(g.pool.records) |->
            LET r == g.pool.records[i]
            IN IF IsSomeOpt(r.payload) /\ IsSomeOpt(Unwrap(r.payload).lifetime)
               THEN [r EXCEPT !.payload = Some([Unwrap(r.payload) EXCEPT
                        !.lifetime = Some(Unwrap(Unwrap(r.payload).lifetime) - dt)])]
               ELSE r]]

\* The removals of an expiry scan that has decided from the pool as it was
\* before the scan which handles go.
RECURSIVE remove_doomed(_, _)
remove_doomed(e, doomed) ==
    IF e.status # "ok" \/ doomed = <<>> THEN e
    ELSE remove_doomed(remove_node(e, Head(doomed)), Tail(doomed))

\* An expiry scan that lists the expired entities first and removes them then.
remove_expired_from_snapshot(e, i, capacity) ==
    LET expired(j) == IsSomeOpt(pool_at(e.graph.pool, j))
                      /\ lifetime_expired(Unwrap(pool_at(e.graph.pool, j)))
        slots == SelectSeq([j \in 1..capacity |-> j], LAMBDA j : j >= i /\ expired(j))
    IN remove_doomed(e, [k \in 1..Len(slots) |->
                            pool_handle_from_index(e.graph.pool, slots[k])])

\* The second loop of Graph::update_nodes: slots i..capacity in index order.
RECURSIVE remove_expired(_, _, _)
remove_expired(e, i, capacity) ==
    IF e.status # "ok" \/ i > capacity THEN e
    ELSE LET node == pool_at(e.graph.pool, i)
         IN IF IsSomeOpt(node) /\ lifetime_expired(Unwrap(node))
            THEN remove_expired(
                    remove_node(e, pool_handle_from_index(e.graph.pool, i)),
                    i + 1, capacity)
            ELSE remove_expired(e, i + 1, capacity)

\* Graph::update_nodes
update_nodes(e, dt) ==
    LET e1 == update_transforms(e)
    IN IF e1.status # "ok" THEN e1
       ELSE remove_expired([e1 EXCEPT !.graph = tick_lifetimes(e1.graph, dt)],
                           1, pool_get_capacity(e1.graph.pool))

\* A traversal that yields the popped handle before it looks the entity up.
RECURSIVE traverse_handles_yields_first(_, _, _, _)
traverse_handles_yields_first(g, stack, out, turns) ==
    IF stack = <<>> THEN [out |-> out, status |-> "ok"]
    ELSE IF turns = 0 THEN [out |-> out, status |-> "hung"]
    ELSE LET n == Len(stack)
             handle == stack[n]
         IN IF ~is_valid_handle(g, handle)
            THEN [out |-> Append(out, handle), status |-> "panicked"]
            ELSE traverse_handles_yields_first(g,
                    SubSeq(stack, 1, n - 1) \o base_of(g, handle).children,
                    Append(out, handle), turns - 1)

\* The loop a GraphHandleTraverseIterator runs when iterated to its end: pop
\* a handle, push its children, yield it.  out is what was yielded so far;
\* turns is as in update_transforms_loop.
RECURSIVE traverse_handles(_, _, _, _)
traverse_handles(g, stack, out, turns) ==
    IF stack = <<>> THEN [out |-> out, status |-> "ok"]
    ELSE IF turns = 0 THEN [out |-> out, status |-> "hung"]
    ELSE LET n == Len(stack)
             handle == stack[n]
         IN IF ~is_valid_handle(g, handle)
            THEN [out |-> out, status |-> "panicked"]
            ELSE traverse_handles(g, SubSeq(stack, 1, n - 1) \o base_of(g, handle).children,
                                  Append(out, handle), turns - 1)

\* A reference to a node of the graph: the slot it points into and the node
\* that is there.
Ref(g, handle) == [slot |-> handle.index, node |-> base_of(g, handle)]

\* What a call of next returns and leaves behind: the iterator's stack, the
\* item returned (None at the end), and whether the call stopped.
Stepped(stack, item, st) == [stack |-> stack, item |-> item, status |-> st]

\* A next that pushes the children in the reverse of their order.
handle_iter_next_pushes_reversed(g, stack) ==
    IF stack = <<>> THEN Stepped(stack, None, "ok")
    ELSE LET n == Len(stack)
             handle == stack[n]
             popped == SubSeq(stack, 1, n - 1)
             children == base_of(g, handle).children
         IN IF ~is_valid_handle(g, handle) THEN Stepped(popped, None, "panicked")
            ELSE Stepped(popped \o [k \in 1..Len(children) |->
                                       children[Len(children) + 1 - k]],
                         Some(handle), "ok")

\* GraphTraverseIterator::next: pop a handle, borrow the node, push its
\* children in their order, return the node.
node_iter_next(g, stack) ==
    IF stack = <<>> THEN Stepped(stack, None, "ok")
    ELSE LET n == Len(stack)
             handle == stack[n]
             popped == SubSeq(stack, 1, n - 1)
         IN IF ~is_valid_handle(g, handle) THEN Stepped(popped, None, "panicked")
            ELSE Stepped(popped \o base_of(g, handle).children,
                         Some(Ref(g, handle)), "ok")

\* GraphHandleTraverseIterator::next: pop a handle, push the children of its
\* node in their order, return the handle.
handle_iter_next(g, stack) ==
    IF stack = <<>> THEN Stepped(stack, None, "ok")
    ELSE LET n == Len(stack)
             handle == stack[n]
             popped == SubSeq(stack, 1, n - 1)
         IN IF ~is_valid_handle(g, handle) THEN Stepped(popped, None, "panicked")
            ELSE Stepped(popped \o base_of(g, handle).children, Some(handle), "ok")

\* Node::clone: the data of the node without its place in a hierarchy (no
\* parent, no children, no original).
clone(node) ==
    [node EXCEPT !.parent = NONE, !.children = <<>>, !.original = NONE]

\* HashMap<Handle, Handle> as a set of (key, value) pairs.
map_insert(map, k, v) == { p \in map : p[1] # k } \cup { <<k, v>> }
map_has(map, k) == \E p \in map : p[1] = k
map_get(map, k) == (CHOOSE p \in map : p[1] = k)[2]

\* A copy in progress: the execution on the destination graph, the mapping
\* from source handles to the handles of their clones, and the handle the
\* last copy_node_raw call returned.
Copying(e, mapping, out) == [e |-> e, mapping |-> mapping, out |-> out]

\* copy_node_raw that leaves the original field of the clones alone.
RECURSIVE copy_node_raw_without_original(_, _, _)
RECURSIVE copy_children_without_original(_, _, _, _)
copy_node_raw_without_original(src, root_handle, c) ==
    IF c.e.status # "ok" THEN c
    ELSE IF ~is_valid_handle(src, root_handle) THEN Copying(Panic(c.e), c.mapping, NONE)
    ELSE LET src_node == base_of(src, root_handle)
             dest_node == clone(src_node)
             dest_copy_handle == pool_spawn_handle(c.e.graph.pool)
             c1 == Copying(add_node(c.e, dest_node),
                           map_insert(c.mapping, root_handle, dest_copy_handle),
                           dest_copy_handle)
         IN [copy_children_without_original(src, src_node.children, dest_copy_handle, c1)
                EXCEPT !.out = dest_copy_handle]

copy_children_without_original(src, children, dest_copy_handle, c) ==
    IF c.e.status # "ok" \/ children = <<>> THEN c
    ELSE LET c1 == copy_node_raw_without_original(src, Head(children), c)
             c2 == IF c1.e.status = "ok" /\ ~is_none(c1.out)
                   THEN [c1 EXCEPT !.e = link_nodes(c1.e, c1.out, dest_copy_handle)]
                   ELSE c1
         IN copy_children_without_original(src, Tail(children), dest_copy_handle, c2)

\* Graph::copy_node_raw on the source graph src (self): the node is cloned,
\* its original set to the source handle, the clone added to the destination
\* graph and entered into the mapping; then the children are copied in their
\* order, each clone linked under this one.
RECURSIVE copy_node_raw(_, _, _)
RECURSIVE copy_children(_, _, _, _)
copy_node_raw(src, root_handle, c) ==
    IF c.e.status # "ok" THEN c
    ELSE IF ~is_valid_handle(src, root_handle) THEN Copying(Panic(c.e), c.mapping, NONE)
    ELSE LET src_node == base_of(src, root_handle)
             dest_node == [clone(src_node) EXCEPT !.original = root_handle]
             dest_copy_handle == pool_spawn_handle(c.e.graph.pool)
             c1 == Copying(add_node(c.e, dest_node),
                           map_insert(c.mapping, root_handle, dest_copy_handle),
                           dest_copy_handle)
         IN [copy_children(src, src_node.children, dest_copy_handle, c1)
                EXCEPT !.out = dest_copy_handle]

\* The loop over the children in Graph::copy_node_raw.
copy_children(src, children, dest_copy_handle, c) ==
    IF c.e.status # "ok" \/ children = <<>> THEN c
    ELSE LET c1 == copy_node_raw(src, Head(children), c)
             c2 == IF c1.e.status = "ok" /\ ~is_none(c1.out)
                   THEN [c1 EXCEPT !.e = link_nodes(c1.e, c1.out, dest_copy_handle)]
                   ELSE c1
         IN copy_children(src, Tail(children), dest_copy_handle, c2)

\* A remap that looks the new handle of a bone up in the mapping once more.
remap_surface_twice(surface, mapping) ==
    [surface EXCEPT !.bones =
        [k \in 1..Len(surface.bones) |->
            LET once == IF map_has(mapping, surface.bones[k])
                        THEN map_get(mapping, surface.bones[k]) ELSE surface.bones[k]
            IN IF map_has(mapping, once) THEN map_get(mapping, once) ELSE once]]

\* The bones of a surface, each one replaced by its entry in the mapping when
\* it has one.
remap_surface(surface, mapping) ==
    [surface EXCEPT !.bones =
        [k \in 1..Len(surface.bones) |->
            IF map_has(mapping, surface.bones[k])
            THEN map_get(mapping, surface.bones[k]) ELSE surface.bones[k]]]

\* The second loop of Graph::copy_node: the surfaces of every mesh among the
\* new nodes get their bones remapped.  The new nodes are distinct, so each
\* is worked on once and the iteration order of the mapping does not show.
remap_bones(g, mapping) ==
    [g EXCEPT !.pool.records =
        [i \in 1..Len(g.pool.records) |->
            LET r == g.pool.records[i]
                h == [index |-> i, generation |-> r.generation]
            IN IF IsSomeOpt(r.payload) /\ (\E p \in mapping : p[2] = h)
                  /\ Unwrap(r.payload).kind = "Mesh"
               THEN [r EXCEPT !.payload = Some([Unwrap(r.payload) EXCEPT !.surfaces =
                        [k \in 1..Len(Unwrap(r.payload).surfaces) |->
                            remap_surface(Unwrap(r.payload).surfaces[k], mapping)]])]
               ELSE r]]

\* Graph::copy_node on the source graph src (self), with the execution e on
\* the destination graph.
copy_node(src, node_handle, e) ==
    LET c == copy_node_raw(src, node_handle, Copying(e, {}, NONE))
    IN IF c.e.status # "ok" THEN c
       ELSE [c EXCEPT !.e.graph = remap_bones(c.e.graph, c.mapping)]

\* The result of a search in a graph: the handle found (NONE when there is
\* none) and how the search ended.
Found(h) == [out |-> h, status |-> "ok"]
NotFound(st) == [out |-> NONE, status |-> st]

RECURSIVE find_copy_of(_, _, _, _)
RECURSIVE find_copy_of_children(_, _, _, _)

\* A search that compares the handles of the nodes, not their originals.
find_copy_of_by_handle(g, root_handle, node_handle, depth) ==
    IF depth = 0 THEN NotFound("hung")
    ELSE IF ~is_valid_handle(g, root_handle) THEN NotFound("panicked")
    ELSE IF root_handle = node_handle THEN Found(root_handle)
    ELSE find_copy_of_children(g, base_of(g, root_handle).children, node_handle, depth - 1)

\* Graph::find_copy_of.  depth counts the calls that may still nest before
\* the recursion is known never to end (a cycle of children).
find_copy_of(g, root_handle, node_handle, depth) ==
    IF depth = 0 THEN NotFound("hung")
    ELSE IF ~is_valid_handle(g, root_handle) THEN NotFound("panicked")
    ELSE IF base_of(g, root_handle).original = node_handle THEN Found(root_handle)
    ELSE find_copy_of_children(g, base_of(g, root_handle).children, node_handle, depth - 1)

\* The loop over the children in Graph::find_copy_of.
find_copy_of_children(g, children, node_handle, depth) ==
    IF children = <<>> THEN Found(NONE)
    ELSE LET r == find_copy_of(g, Head(children), node_handle, depth)
         IN IF r.status # "ok" \/ is_some(r.out) THEN r
            ELSE find_copy_of_children(g, Tail(children), node_handle, depth)

RECURSIVE find_by_name(_, _, _, _)
RECURSIVE find_by_name_children(_, _, _, _)

\* A search that looks among the children before it looks at the node.
find_by_name_children_first(g, root_node, name, depth) ==
    IF depth = 0 THEN NotFound("hung")
    ELSE IF ~is_valid_handle(g, root_node) THEN NotFound("panicked")
    ELSE LET r == find_by_name_children(g, base_of(g, root_node).children, name,
                                        depth - 1)
         IN IF r.status # "ok" \/ ~is_none(r.out) THEN r
            ELSE IF base_of(g, root_node).name = name THEN Found(root_node)
            ELSE Found(NONE)

\* Graph::find_by_name, depth as in find_copy_of.
find_by_name(g, root_node, name, depth) ==
    IF depth = 0 THEN NotFound("hung")
    ELSE IF ~is_valid_handle(g, root_node) THEN NotFound("panicked")
    ELSE IF base_of(g, root_node).name = name THEN Found(root_node)
    ELSE find_by_name_children(g, base_of(g, root_node).children, name, depth - 1)

\* The loop over the children in Graph::find_by_name.
find_by_name_children(g, children, name, depth) ==
    IF children = <<>> THEN Found(NONE)
    ELSE LET r == find_by_name(g, Head(children), name, depth)
         IN IF r.status # "ok" \/ ~is_none(r.out) THEN r
            ELSE find_by_name_children(g, Tail(children), name, depth)

\* Graph::find_by_name_from_root
find_by_name_from_root(g, name) ==
    find_by_name(g, g.root, name, pool_get_capacity(g.pool) + 1)

\* Model::find_node_by_name: the search by name from the root of the
\* resource's graph.
model_find_node_by_name(model, name) == find_by_name_from_root(model.graph, name)

\* A search for the model root that stays where it starts.
find_model_root_stays(g, model_root_handle, turns) == Found(model_root_handle)

\* Graph::find_model_root.  turns counts the turns of the loop left before it
\* is known never to end (a cycle of parents).
RECURSIVE find_model_root(_, _, _)
find_model_root(g, model_root_handle, turns) ==
    IF ~is_some(model_root_handle) THEN Found(model_root_handle)
    ELSE IF turns = 0 THEN NotFound("hung")
    ELSE IF ~is_valid_handle(g, model_root_handle) THEN NotFound("panicked")
    ELSE LET model_node == base_of(g, model_root_handle)
         IN IF is_none(model_node.parent) THEN Found(model_root_handle)
            ELSE IF model_node.is_resource_instance THEN Found(model_root_handle)
            ELSE find_model_root(g, model_node.parent, turns - 1)

\* The first loop of Graph::resolve for one node: with a resource, the first
\* node of the resource's graph (in slot order) that has the node's name
\* gives the original handle and the inverse bind pose.
resolve_original(base) ==
    IF IsSomeOpt(base.resource)
    THEN LET rg == Unwrap(base.resource).graph
             matches == { h \in pool_handles(rg.pool) : base_of(rg, h).name = base.name }
         IN IF matches = {} THEN base
            ELSE LET handle == CHOOSE h \in matches :
                                  \A x \in matches : h.index <= x.index
                 IN [base EXCEPT
                       !.original = handle,
                       !.inv_bind_pose_transform =
                           base_of(rg, handle).inv_bind_pose_transform]
    ELSE base

\* The first loop of Graph::resolve.
resolve_originals(g) ==
    [g EXCEPT !.pool.records =
        [i \in 1..Len(g.pool.records) |->
            LET r == g.pool.records[i]
            IN IF IsSomeOpt(r.payload)
               THEN [r EXCEPT !.payload = Some(resolve_original(Unwrap(r.payload)))]
               ELSE r]]

\* How the bone lookups of a surface list end: "ok" when every find_copy_of
\* call returns.
remap_status(g, root_handle, surfaces) ==
    LET results == UNION {
            { find_copy_of(g, root_handle, surfaces[k].bones[j],
                           pool_get_capacity(g.pool) + 1).status :
                j \in 1..Len(surfaces[k].bones) } : k \in 1..Len(surfaces) }
    IN IF "panicked" \in results THEN "panicked"
       ELSE IF "hung" \in results THEN "hung" ELSE "ok"

\* The surfaces of a resource mesh with every bone handle replaced by what
\* find_copy_of finds for it in the graph, from root_handle down.
remapped(g, root_handle, surfaces) ==
    [k \in 1..Len(surfaces) |->
        [surfaces[k] EXCEPT !.bones =
            [j \in 1..Len(surfaces[k].bones) |->
                find_copy_of(g, root_handle, surfaces[k].bones[j],
                             pool_get_capacity(g.pool) + 1).out]]]

\* A surface resync that adds the resource's surfaces to the ones the mesh
\* has, without clearing them first.
resolve_surfaces_without_clear(e, node_handle) ==
    LET mesh == base_of(e.graph, node_handle)
        root == find_model_root(e.graph, node_handle, pool_get_capacity(e.graph.pool) + 1)
    IN IF root.status # "ok" THEN [e EXCEPT !.status = root.status]
       ELSE IF ~IsSomeOpt(mesh.resource) THEN e
       ELSE LET model == Unwrap(mesh.resource)
                found == model_find_node_by_name(model, mesh.name)
            IN IF found.status # "ok" THEN [e EXCEPT !.status = found.status]
               ELSE IF ~is_valid_handle(model.graph, found.out) THEN Panic(e)
               ELSE LET resource_mesh == base_of(model.graph, found.out)
                    IN IF resource_mesh.kind # "Mesh" THEN e
                       ELSE LET st == remap_status(e.graph, root.out, resource_mesh.surfaces)
                            IN IF st # "ok" THEN [e EXCEPT !.status = st]
                               ELSE [e EXCEPT !.graph = set_base(e.graph, node_handle,
                                       [mesh EXCEPT !.surfaces = mesh.surfaces \o
                                           remapped(e.graph, root.out, resource_mesh.surfaces)])]

\* The body of the second loop of Graph::resolve for the mesh node_handle:
\* the model root is looked up; with a resource, the node of that name in the
\* resource's graph is borrowed and, when it is a mesh, its surfaces replace
\* the mesh's own, the bones remapped through find_copy_of.  The lookups go
\* through a second reference to the graph; they read parents, children,
\* originals and flags, which this loop never writes.
resolve_surfaces(e, node_handle) ==
    LET mesh == base_of(e.graph, node_handle)
        root == find_model_root(e.graph, node_handle, pool_get_capacity(e.graph.pool) + 1)
    IN IF root.status # "ok" THEN [e EXCEPT !.status = root.status]
       ELSE IF ~IsSomeOpt(mesh.resource) THEN e
       ELSE LET model == Unwrap(mesh.resource)
                found == model_find_node_by_name(model, mesh.name)
            IN IF found.status # "ok" THEN [e EXCEPT !.status = found.status]
               ELSE IF ~is_valid_handle(model.graph, found.out) THEN Panic(e)
               ELSE LET resource_mesh == base_of(model.graph, found.out)
                    IN IF resource_mesh.kind # "Mesh" THEN e
                       ELSE LET st == remap_status(e.graph, root.out, resource_mesh.surfaces)
                            IN IF st # "ok" THEN [e EXCEPT !.status = st]
                               ELSE [e EXCEPT !.graph = set_base(e.graph, node_handle,
                                       [mesh EXCEPT !.surfaces =
                                           remapped(e.graph, root.out, resource_mesh.surfaces)])]

\* The second loop of Graph::resolve: slots i..capacity in index order.
RECURSIVE resolve_meshes(_, _)
resolve_meshes(e, i) ==
    IF e.status # "ok" \/ i > pool_get_capacity(e.graph.pool) THEN e
    ELSE LET node == pool_at(e.graph.pool, i)
         IN IF IsSomeOpt(node) /\ Unwrap(node).kind = "Mesh"
            THEN resolve_meshes(
                    resolve_surfaces(e, pool_handle_from_index(e.graph.pool, i)), i + 1)
            ELSE resolve_meshes(e, i + 1)

\* Graph::resolve
resolve(e) ==
    LET e1 == update_transforms(e)
    IN IF e1.status # "ok" THEN e1
       ELSE resolve_meshes([e1 EXCEPT !.graph = resolve_originals(e1.graph)], 1)

\* The outcome of a visit: the graph and the visitor after it, whether the code
\* stopped, and the VisitResult it returned.
Visited(g, v, st, result) ==
    [graph |-> g, visitor |-> v, status |-> st, result |-> result]

\* A visit that reads the root and the pool before it looks at the capacity.
graph_visit_reads_before_check(g, v, is_reading) ==
    IF is_reading /\ ~IsSomeOpt(v) THEN Visited(g, v, "ok", "Err")
    ELSE IF is_reading
    THEN Visited([g EXCEPT !.root = Unwrap(v).root, !.pool = Unwrap(v).pool], v,
                 IF pool_get_capacity(g.pool) # 0 THEN "panicked" ELSE "ok", "Ok")
    ELSE Visited(g, Some([root |-> g.root, pool |-> g.pool]), "ok", "Ok")

\* impl Visit for Graph.  The visitor holds the region "Graph" (a root handle
\* and a pool) once a graph was written to it.  enter_region fails when
\* reading a region the visitor does not hold, and the visit then returns the
\* error at once; reading fills root and pool from the region, writing puts
\* them there.
graph_visit(g, v, is_reading) ==
    IF is_reading /\ ~IsSomeOpt(v) THEN Visited(g, v, "ok", "Err")
    ELSE IF is_reading /\ pool_get_capacity(g.pool) # 0
    THEN Visited(g, v, "panicked", "Ok")
    ELSE IF is_reading
    THEN Visited([g EXCEPT !.root = Unwrap(v).root, !.pool = Unwrap(v).pool], v,
                 "ok", "Ok")
    ELSE Visited(g, Some([root |-> g.root, pool |-> g.pool]), "ok", "Ok")

\* ------------------------------------------------------------------ Scene

\* bind that keeps the pair the entity had: a multimap insert.
bind_keeps_old_pair(map, node, rigid_body) == map \cup { <<node, rigid_body>> }

\* PhysicsBinder::bind: HashMap::insert replaces the value of a present key.
bind(map, node, rigid_body) ==
    { p \in map : p[1] # node } \cup { <<node, rigid_body>> }

\* PhysicsBinder::unbind: HashMap::remove
unbind(map, node) == { p \in map : p[1] # node }

\* Physics::is_valid_body_handle
is_valid_body_handle(ph, body) == pool_is_valid_handle(ph, body)

\* Physics::borrow_body(..).get_position()
body_position(ph, body) == pool_borrow(ph, body).position

\* Physics::step: what the solver may leave behind.  The live bodies all
\* move on by one of the displacements ds.
StepOutcomes(ph, ds) ==
    { [ph EXCEPT !.records =
         [i \in 1..Len(ph.records) |->
             IF IsSomeOpt(ph.records[i].payload)
             THEN [ph.records[i] EXCEPT !.payload =
                     Some([position |-> (Unwrap(ph.records[i].payload).position + d) % Modulus])]
             ELSE ph.records[i]]] : d \in ds }

\* retain that looks at the body handle only.
retain_alive_bodies_only(map, g, ph) ==
    { p \in map : is_valid_body_handle(ph, p[2]) }

\* retain that looks at the node handle only.
retain_alive_nodes_only(map, g, ph) ==
    { p \in map : is_valid_handle(g, p[1]) }

\* The retain call of Scene::update_physics.
retain_alive(map, g, ph) ==
    { p \in map : is_valid_handle(g, p[1]) /\ is_valid_body_handle(ph, p[2]) }

\* A sync loop that writes no node.
sync_positions_writes_nothing(e, ph, pairs) == e

\* The sync loop of Scene::update_physics over the pairs left in the map.
\* The map's iteration order is unspecified; the pairs have distinct keys, so
\* each node is written once and the order does not show in the result.
RECURSIVE sync_positions(_, _, _)
sync_positions(e, ph, pairs) ==
    IF e.status # "ok" \/ pairs = {} THEN e
    ELSE LET p == CHOOSE q \in pairs : TRUE
         IN IF ~is_valid_handle(e.graph, p[1]) \/ ~is_valid_body_handle(ph, p[2])
            THEN Panic(e)
            ELSE sync_positions(
                    [e EXCEPT !.graph = set_base(e.graph, p[1],
                        [base_of(e.graph, p[1]) EXCEPT !.position = body_position(ph, p[2])])],
                    ph, pairs \ {p})

\* retain that looks at the first track of an animation only.
retain_animations_first_track(anims, descendant) ==
    SelectSeq(anims, LAMBDA animation :
        animation.tracks = <<>> \/ animation.tracks[1].node # descendant)

\* AnimationContainer::retain of Scene::remove_node for one descendant: an
\* animation goes when one of its tracks targets the descendant.
retain_animations(anims, descendant) ==
    SelectSeq(anims, LAMBDA animation :
        \A k \in 1..Len(animation.tracks) : animation.tracks[k].node # descendant)

RECURSIVE retain_animations_all(_, _)
retain_animations_all(anims, descendants) ==
    IF descendants = <<>> THEN anims
    ELSE retain_animations_all(retain_animations(anims, Head(descendants)),
                               Tail(descendants))

\* An animation: its tracks, each made for one node and holding the local
\* position it gives that node, and the pose computed from the tracks by the
\* last update (empty before the first one).
Animation(tracks) == [tracks |-> tracks, pose |-> <<>>]

\* Animation::tick: the pose is computed from the tracks and kept inside the
\* animation.
tick(animation) ==
    [animation EXCEPT !.pose =
        [k \in 1..Len(animation.tracks) |-> animation.tracks[k].position]]

\* AnimationContainer::update_animations(dt): called with the time step
\* alone, it works on the animations and has no access to the graph.
update_animations(anims, dt) == [k \in 1..Len(anims) |-> tick(anims[k])]

\* ------------------------------------------------------------------ hierarchy vocabulary

Elems(seq) == { seq[i] : i \in 1..Len(seq) }
Count(seq, x) == Cardinality({ i \in 1..Len(seq) : seq[i] = x })

\* The live handles among the children of h.
ChildSet(g, h) ==
    IF is_valid_handle(g, h) THEN Elems(base_of(g, h).children) ELSE {}

RECURSIVE Closure(_, _, _)
Closure(g, frontier, seen) ==
    IF frontier = {} THEN seen
    ELSE LET next == UNION { ChildSet(g, h) : h \in frontier }
         IN Closure(g, next \ (seen \cup frontier), seen \cup frontier)

\* Every entity reachable from h through one or more children links.
Descendants(g, h) == Closure(g, ChildSet(g, h), {})
\* h and its transitive descendants.
Subtree(g, h) == {h} \cup Descendants(g, h)

\* The entities met by following parent pointers from h (h excluded unless
\* it lies on a cycle).
RECURSIVE Up(_, _, _)
Up(g, h, seen) ==
    IF ~is_valid_handle(g, h) THEN seen
    ELSE LET p == base_of(g, h).parent
         IN IF is_none(p) \/ p \in seen THEN seen ELSE Up(g, p, seen \cup {p})

Ancestors(g, h) == Up(g, h, {})

Parentless(g) == { h \in pool_handles(g.pool) : is_none(base_of(g, h).parent) }

\* The graph is a tree hanging from its root.
IsTree(g) ==
    /\ is_valid_handle(g, g.root)
    /\ Parentless(g) = {g.root}
    /\ \A h \in pool_handles(g.pool) :
          /\ h \notin Ancestors(g, h)
          /\ h # g.root => g.root \in Ancestors(g, h)

\* The entities whose lifetime is present and at most dt.
Expiring(g, dt) ==
    { h \in pool_handles(g.pool) :
        /\ IsSomeOpt(base_of(g, h).lifetime)
        /\ Unwrap(base_of(g, h).lifetime) - dt <= 0 }

\* An entity that expires in a pass with dt together with one of its
\* ancestors, as the pair (descendant, ancestor); (NONE, NONE) when the graph
\* has no such pair.
NestedExpiring(g, dt) ==
    LET pairs == { p \in Expiring(g, dt) \X Expiring(g, dt) : p[2] \in Ancestors(g, p[1]) }
    IN IF pairs = {} THEN <<NONE, NONE>> ELSE CHOOSE p \in pairs : TRUE

\* ----------------------------------------------------- renderer State cache

\* The length of State::texture_units.
TextureUnits == 32

\* An f32 that is not a number.
NaN == "NaN"

\* `a != b` on f32: a NaN is unequal to every value, itself included.
f32_ne(a, b) == a = NaN \/ b = NaN \/ a # b

\* TextureUnit::default
TextureUnit_default == [target |-> "TEXTURE_2D", texture |-> 0]

\* bool_to_gl_bool
bool_to_gl_bool(v) == IF v THEN "GL_TRUE" ELSE "GL_FALSE"

\* ColorMask::all
ColorMask_all(value) == [red |-> value, green |-> value, blue |-> value, alpha |-> value]

\* ColorMask::default
ColorMask_default == [red |-> TRUE, green |-> TRUE, blue |-> TRUE, alpha |-> TRUE]

\* StencilFunc::default
StencilFunc_default == [func |-> "ALWAYS", ref_value |-> 0, mask |-> "0xFFFF_FFFF"]

\* StencilOp::default
StencilOp_default == [fail |-> "KEEP", zfail |-> "KEEP", zpass |-> "KEEP"]

\* CullFace::into_gl_value
into_gl_value(cull_face) == IF cull_face = "Back" THEN "GL_BACK" ELSE "GL_FRONT"

\* Color::as_frgba: each channel as the fraction channel / 255.
as_frgba(color) == [k \in 1..4 |-> <<color[k], 255>>]

\* State::new
state_new ==
    [ blend            |-> FALSE,
      depth_test       |-> FALSE,
      depth_write      |-> TRUE,
      color_write      |-> ColorMask_default,
      stencil_test     |-> FALSE,
      cull_face        |-> "Back",
      culling          |-> FALSE,
      stencil_mask     |-> "0xFFFF_FFFF",
      clear_color      |-> <<0, 0, 0, 0>>,
      clear_stencil    |-> 0,
      clear_depth      |-> "1.0",
      framebuffer      |-> 0,
      viewport         |-> [x |-> 0, y |-> 0, w |-> 1, h |-> 1],
      blend_src_factor |-> "ONE",
      blend_dst_factor |-> "ZERO",
      program          |-> 0,
      texture_units    |-> [i \in 0 .. TextureUnits - 1 |-> TextureUnit_default],
      stencil_func     |-> StencilFunc_default,
      stencil_op       |-> StencilOp_default ]

\* One call into the driver: the gl function and its arguments.
Gl(fn, args) == [fn |-> fn, args |-> args]

\* The outcome of a State call: the cache after it, the driver calls it
\* issued in order, and whether it returned ("ok") or stopped the program.
Issued(st, calls) == [state |-> st, calls |-> calls, status |-> "ok"]
Stopped(st) == [state |-> st, calls |-> <<>>, status |-> "panicked"]

\* gl::Enable(cap) or gl::Disable(cap)
Toggle(on, cap) == Gl(IF on THEN "Enable" ELSE "Disable", <<cap>>)

\* State::set_framebuffer
set_framebuffer(st, framebuffer) ==
    IF st.framebuffer # framebuffer
    THEN Issued([st EXCEPT !.framebuffer = framebuffer],
                <<Gl("BindFramebuffer", <<"FRAMEBUFFER", framebuffer>>)>>)
    ELSE Issued(st, <<>>)

\* State::set_viewport
set_viewport(st, viewport) ==
    IF st.viewport # viewport
    THEN Issued([st EXCEPT !.viewport = viewport],
                <<Gl("Viewport", <<viewport.x, viewport.y, viewport.w, viewport.h>>)>>)
    ELSE Issued(st, <<>>)

\* State::set_blend
set_blend(st, blend) ==
    IF st.blend # blend
    THEN Issued([st EXCEPT !.blend = blend], <<Toggle(blend, "BLEND")>>)
    ELSE Issued(st, <<>>)

\* State::set_depth_test
set_depth_test(st, depth_test) ==
    IF st.depth_test # depth_test
    THEN Issued([st EXCEPT !.depth_test = depth_test], <<Toggle(depth_test, "DEPTH_TEST")>>)
    ELSE Issued(st, <<>>)

\* State::set_depth_write
set_depth_write(st, depth_write) ==
    IF st.depth_write # depth_write
    THEN Issued([st EXCEPT !.depth_write = depth_write],
                <<Gl("DepthMask", <<bool_to_gl_bool(depth_write)>>)>>)
    ELSE Issued(st, <<>>)

\* State::set_color_write
set_color_write(st, color_write) ==
    IF st.color_write # color_write
    THEN Issued([st EXCEPT !.color_write = color_write],
                <<Gl("ColorMask", <<bool_to_gl_bool(color_write.red),
                                    bool_to_gl_bool(color_write.green),
                                    bool_to_gl_bool(color_write.blue),
                                    bool_to_gl_bool(color_write.alpha)>>)>>)
    ELSE Issued(st, <<>>)

\* State::set_stencil_test
set_stencil_test(st, stencil_test) ==
    IF st.stencil_test # stencil_test
    THEN Issued([st EXCEPT !.stencil_test = stencil_test],
                <<Toggle(stencil_test, "STENCIL_TEST")>>)
    ELSE Issued(st, <<>>)

\* State::set_cull_face
set_cull_face(st, cull_face) ==
    IF st.cull_face # cull_face
    THEN Issued([st EXCEPT !.cull_face = cull_face],
                <<Gl("CullFace", <<into_gl_value(cull_face)>>)>>)
    ELSE Issued(st, <<>>)

\* State::set_culling
set_culling(st, culling) ==
    IF st.culling # culling
    THEN Issued([st EXCEPT !.culling = culling], <<Toggle(culling, "CULL_FACE")>>)
    ELSE Issued(st, <<>>)

\* State::set_stencil_mask
set_stencil_mask(st, stencil_mask) ==
    IF st.stencil_mask # stencil_mask
    THEN Issued([st EXCEPT !.stencil_mask = stencil_mask],
                <<Gl("StencilMask", <<stencil_mask>>)>>)
    ELSE Issued(st, <<>>)

\* State::set_clear_color
set_clear_color(st, color) ==
    IF st.clear_color # color
    THEN Issued([st EXCEPT !.clear_color = color],
                <<Gl("ClearColor", as_frgba(color))>>)
    ELSE Issued(st, <<>>)

\* State::set_clear_depth
set_clear_depth(st, depth) ==
    IF f32_ne(st.clear_depth, depth)
    THEN Issued([st EXCEPT !.clear_depth = depth], <<Gl("ClearDepth", <<depth>>)>>)
    ELSE Issued(st, <<>>)

\* State::set_clear_stencil
set_clear_stencil(st, stencil) ==
    IF st.clear_stencil # stencil
    THEN Issued([st EXCEPT !.clear_stencil = stencil], <<Gl("ClearStencil", <<stencil>>)>>)
    ELSE Issued(st, <<>>)

\* set_blend_func that takes the new factors only when both differ.
set_blend_func_when_both_differ(st, sfactor, dfactor) ==
    IF st.blend_src_factor # sfactor /\ st.blend_dst_factor # dfactor
    THEN Issued([st EXCEPT !.blend_src_factor = sfactor, !.blend_dst_factor = dfactor],
                <<Gl("BlendFunc", <<sfactor, dfactor>>)>>)
    ELSE Issued(st, <<>>)

\* State::set_blend_func
set_blend_func(st, sfactor, dfactor) ==
    IF st.blend_src_factor # sfactor \/ st.blend_dst_factor # dfactor
    THEN Issued([st EXCEPT !.blend_src_factor = sfactor, !.blend_dst_factor = dfactor],
                <<Gl("BlendFunc", <<sfactor, dfactor>>)>>)
    ELSE Issued(st, <<>>)

\* State::set_program
set_program(st, program) ==
    IF st.program # program
    THEN Issued([st EXCEPT !.program = program], <<Gl("UseProgram", <<program>>)>>)
    ELSE Issued(st, <<>>)

\* State::set_texture
set_texture(st, sampler_index, target, texture) ==
    IF sampler_index \notin DOMAIN st.texture_units
    THEN Stopped(st)
    ELSE LET unit == st.texture_units[sampler_index]
         IN IF unit.target # target \/ unit.texture # texture
            THEN Issued([st EXCEPT !.texture_units[sampler_index] =
                                       [target |-> target, texture |-> texture]],
                        <<Gl("ActiveTexture", <<"TEXTURE0", sampler_index>>),
                          Gl("BindTexture", <<target, texture>>)>>)
            ELSE Issued(st, <<>>)

\* State::set_stencil_func
set_stencil_func(st, func) ==
    IF st.stencil_func # func
    THEN Issued([st EXCEPT !.stencil_func = func],
                <<Gl("StencilFunc", <<func.func, func.ref_value, func.mask>>)>>)
    ELSE Issued(st, <<>>)

\* State::set_stencil_op
set_stencil_op(st, op) ==
    IF st.stencil_op # op
    THEN Issued([st EXCEPT !.stencil_op = op],
                <<Gl("StencilOp", <<op.fail, op.zfail, op.zpass>>)>>)
    ELSE Issued(st, <<>>)

\* State::invalidate_resource_bindings_cache
invalidate_resource_bindings_cache(st) ==
    Issued([st EXCEPT !.texture_units = [i \in 0 .. TextureUnits - 1 |-> TextureUnit_default],
                      !.program = 0],
           <<>>)

\* One State call after another: the second starts from the cache the first
\* left, and the driver sees the calls of both in order.
Then(r, s) == Issued(s.state, r.calls \o s.calls)

\* State::apply_draw_parameters
apply_draw_parameters(st, draw_params) ==
    LET r1 == set_blend(st, draw_params.blend)
        r2 == Then(r1, set_depth_test(r1.state, draw_params.depth_test))
        r3 == Then(r2, set_depth_write(r2.state, draw_params.depth_write))
        r4 == Then(r3, set_color_write(r3.state, draw_params.color_write))
        r5 == Then(r4, set_stencil_test(r4.state, draw_params.stencil_test))
        r6 == Then(r5, set_cull_face(r5.state, draw_params.cull_face))
    IN Then(r6, set_culling(r6.state, draw_params.culling))

\* ------------------------------------------------------------------ state

VARIABLES
    graph,      \* Scene::graph, a Graph {root, pool, stack}
    status,     \* "ok", "panicked" (fatal stop) or "hung" (a loop never ends)
    binder,     \* Scene::physics_binder.node_rigid_body_map, as (node, body) pairs
    physics,    \* Scene::physics: the pool of rigid bodies
    animations, \* Scene::animations, a sequence of animations
    pc,         \* position inside Scene::update
    dest,       \* the graph that copy_node copies into
    visitor,    \* the visitor: the "Graph" region it holds, if any
    iter,       \* the traversal iterator a caller holds on the graph, if any
    state,      \* the renderer's State: the cached driver state
    driver,     \* the driver calls the last State call issued, in order
    call,       \* the last State call: its name, its argument, its number
    last        \* the call that produced this state

vars == <<graph, status, binder, physics, animations, pc, dest, visitor, iter,
          state, driver, call, last>>
sceneVars == <<binder, physics, animations, pc>>
renderVars == <<state, driver, call>>
otherVars == <<dest, visitor, iter, renderVars>>

\* A call: its name, its handle arguments, its number argument (dt; for
\* resolve, 1 for a first call and 2 for a call that follows another), the
\* number of live nodes and of animations when it was made and, for a call
\* that works on the binder map, the map as it was.
Op(name, a, b, n) ==
    [op |-> name, a |-> a, b |-> b, n |-> n,
     alive |-> pool_alive_count(graph.pool), anims |-> Len(animations), map |-> {}]
BinderOp(name, a, b, n) == [Op(name, a, b, n) EXCEPT !.map = binder]

\* Scene::new
Init ==
    /\ graph = graph_new
    /\ status = "ok"
    /\ binder = {}
    /\ physics = EmptyPool
    /\ pc = "idle"
    /\ animations = <<>>
    /\ dest = graph_new
    /\ visitor = None
    /\ iter = None
    /\ state = state_new
    /\ driver = <<>>
    /\ call = [setter |-> "new", arg |-> <<>>, n |-> 0]
    /\ last = [op |-> "new", a |-> NONE, b |-> NONE, n |-> 0, alive |-> 0,
               anims |-> 0, map |-> {}]

Ready == status = "ok" /\ pc = "idle"

Commit(e, op) ==
    /\ graph' = e.graph
    /\ status' = e.status
    /\ last' = op

LiveHandles == pool_handles(graph.pool)

\* ------------------------------------------------------------------ Graph calls

AddNode(node) ==
    /\ Ready
    /\ pool_spawn_count(graph.pool) < MaxSpawns
    /\ Commit(add_node(Exec(graph), node),
              Op("add_node", pool_spawn_handle(graph.pool), NONE, 0))
    /\ UNCHANGED sceneVars
    /\ UNCHANGED otherVars

LinkNodes(child, parent) ==
    /\ Ready
    /\ Commit(link_nodes(Exec(graph), child, parent), Op("link_nodes", child, parent, 0))
    /\ UNCHANGED sceneVars
    /\ UNCHANGED otherVars

UnlinkNode(h) ==
    /\ Ready
    /\ Commit(unlink_node(Exec(graph), h), Op("unlink_node", h, NONE, 0))
    /\ UNCHANGED sceneVars
    /\ UNCHANGED otherVars

RemoveNode(h) ==
    /\ Ready
    /\ Commit(remove_node(Exec(graph), h), Op("remove_node", h, NONE, 0))
    /\ UNCHANGED sceneVars
    /\ UNCHANGED otherVars

UpdateTransforms ==
    /\ Ready
    /\ Commit(update_transforms(Exec(graph)), Op("update_transforms", NONE, NONE, 0))
    /\ UNCHANGED sceneVars
    /\ UNCHANGED otherVars

\* Graph::update_nodes called on its own.  The call has no handle arguments;
\* recorded in their place is a pair of entities, descendant and ancestor,
\* that both expire in this pass, when there is one.
UpdateNodes(dt) ==
    /\ Ready
    /\ Commit(update_nodes(Exec(graph), dt),
              Op("update_nodes", NestedExpiring(graph, dt)[1],
                 NestedExpiring(graph, dt)[2], dt))
    /\ UNCHANGED sceneVars
    /\ UNCHANGED otherVars

\* ------------------------------------------------------------------ Scene calls

LiveBodies == pool_handles(physics)

\* The physics world gets a rigid body (the caller's doing).
AddBody(position) ==
    /\ Ready
    /\ pool_spawn_count(physics) < MaxBodies
    /\ physics' = pool_spawn(physics, [position |-> position])
    /\ last' = Op("add_body", NONE, pool_spawn_handle(physics), 0)
    /\ UNCHANGED <<graph, status, binder, animations, pc>>
    /\ UNCHANGED otherVars

\* The physics world loses a rigid body (the caller's doing).
RemoveBody(body) ==
    /\ Ready
    /\ physics' = pool_free(physics, body)
    /\ last' = Op("remove_body", NONE, body, 0)
    /\ UNCHANGED <<graph, status, binder, animations, pc>>
    /\ UNCHANGED otherVars

Bind(node, rigid_body) ==
    /\ Ready
    /\ binder' = bind(binder, node, rigid_body)
    /\ last' = BinderOp("bind", node, rigid_body, 0)
    /\ UNCHANGED <<graph, status, physics, animations, pc>>
    /\ UNCHANGED otherVars

Unbind(node) ==
    /\ Ready
    /\ binder' = unbind(binder, node)
    /\ last' = Op("unbind", node, NONE, 0)
    /\ UNCHANGED <<graph, status, physics, animations, pc>>
    /\ UNCHANGED otherVars

\* The animation container gets an animation (the caller's doing).
AddAnimation(tracks) ==
    /\ Ready
    /\ animations' = Append(animations, Animation(tracks))
    /\ last' = Op("add_animation", NONE, NONE, 0)
    /\ UNCHANGED <<graph, status, binder, physics, pc>>
    /\ UNCHANGED otherVars

\* Scene::remove_node: the animations of the subtree go, one descendant at a
\* time, then Graph::remove_node runs.
SceneRemoveNode(handle) ==
    /\ Ready
    /\ LET t == traverse_handles(graph, <<handle>>, <<>>,
                                 pool_get_capacity(graph.pool))
       IN /\ animations' = retain_animations_all(animations, t.out)
          /\ IF t.status = "ok"
             THEN Commit(remove_node(Exec(graph), handle),
                         Op("scene_remove_node", handle, NONE, 0))
             ELSE Commit([graph |-> graph, status |-> t.status],
                         Op("scene_remove_node", handle, NONE, 0))
    /\ UNCHANGED <<binder, physics, pc>>
    /\ UNCHANGED otherVars

\* Scene::update, first stage: Scene::update_physics.
UpdatePhysics(dt, ds) ==
    /\ Ready
    /\ \E stepped \in StepOutcomes(physics, ds) :
          LET map == retain_alive(binder, graph, stepped)
          IN /\ physics' = stepped
             /\ binder' = map
             /\ Commit(sync_positions(Exec(graph), stepped, map),
                       BinderOp("update_physics", NONE, NONE, dt))
    /\ pc' = "after_physics"
    /\ UNCHANGED animations
    /\ UNCHANGED otherVars

\* Scene::update, second stage: AnimationContainer::update_animations.
UpdateAnimations ==
    /\ status = "ok"
    /\ pc = "after_physics"
    /\ animations' = update_animations(animations, last.n)
    /\ last' = Op("update_animations", NONE, NONE, last.n)
    /\ pc' = "after_animations"
    /\ UNCHANGED <<graph, status, binder, physics>>
    /\ UNCHANGED otherVars

\* Scene::update, third stage: Graph::update_nodes.
UpdateGraph ==
    /\ status = "ok"
    /\ pc = "after_animations"
    /\ Commit(update_nodes(Exec(graph), last.n), Op("update", NONE, NONE, last.n))
    /\ pc' = "idle"
    /\ UNCHANGED <<binder, physics, animations>>
    /\ UNCHANGED otherVars

\* ------------------------------------------------------------------ persistence

\* Scene::default: the scene a caller makes to load into.
DefaultScene ==
    /\ Ready
    /\ graph' = graph_default
    /\ binder' = {}
    /\ physics' = EmptyPool
    /\ animations' = <<>>
    /\ last' = [Op("default", NONE, NONE, 0) EXCEPT !.alive = 0, !.anims = 0]
    /\ UNCHANGED <<status, pc, dest, visitor, iter, renderVars>>

\* Graph::visit with a visitor that reads (load) or writes (save).
VisitGraph(is_reading) ==
    /\ Ready
    /\ LET r == graph_visit(graph, visitor, is_reading)
       IN /\ Commit([graph |-> r.graph, status |-> r.status],
                    Op(IF is_reading THEN "visit_read" ELSE "visit_write",
                       NONE, NONE, 0))
          /\ visitor' = r.visitor
    /\ UNCHANGED <<sceneVars, dest, iter, renderVars>>

\* ------------------------------------------------------------------ copies

\* Graph::copy_node called on the graph, with dest as the destination.
CopyNode(h) ==
    /\ Ready
    /\ LET c == copy_node(graph, h, Exec(dest))
       IN /\ dest' = c.e.graph
          /\ status' = c.e.status
          /\ last' = Op("copy_node", h, c.out, 0)
    /\ UNCHANGED <<graph, sceneVars, visitor, iter, renderVars>>

\* Graph::remove_node called on the destination graph.
RemoveDestNode(h) ==
    /\ Ready
    /\ LET e == remove_node(Exec(dest), h)
       IN /\ dest' = e.graph
          /\ status' = e.status
          /\ last' = Op("dest_remove_node", h, NONE, 0)
    /\ UNCHANGED <<graph, sceneVars, visitor, iter, renderVars>>

\* Graph::resolve (through Scene::resolve).
Resolve ==
    /\ Ready
    /\ Commit(resolve(Exec(graph)),
              Op("resolve", NONE, NONE, IF last.op = "resolve" THEN 2 ELSE 1))
    /\ UNCHANGED sceneVars
    /\ UNCHANGED otherVars

\* ------------------------------------------------------------------ hierarchy

\* Graph::new, then add_node, link_nodes, unlink_node and remove_node with
\* valid handles.
NextGraph ==
    \/ AddNode(DefaultBase)
    \/ \E c \in LiveHandles, p \in LiveHandles : LinkNodes(c, p)
    \/ \E h \in LiveHandles : UnlinkNode(h)
    \/ \E h \in LiveHandles : RemoveNode(h)

SpecGraph == Init /\ [][NextGraph]_vars

\* ------------------------------------------------------------------ trees

\* As NextGraph, with link_nodes called as documented: never an entity under
\* itself or under one of its own descendants.
NextTree ==
    \/ AddNode(DefaultBase)
    \/ \E c \in LiveHandles : \E p \in LiveHandles \ Subtree(graph, c) : LinkNodes(c, p)
    \/ \E h \in LiveHandles : UnlinkNode(h)
    \/ \E h \in LiveHandles : RemoveNode(h)

SpecTree == Init /\ [][NextTree]_vars

\* ------------------------------------------------------------------ claims

\* C1: after any sequence of add_node, link_nodes, unlink_node and
\* remove_node calls with valid handles, exactly one live entity has no
\* parent, and it is the entity the root handle refers to.
C1_OneParentlessRoot ==
    status = "ok" => Parentless(graph) = {graph.root}

\* C2: every live non-root entity appears exactly once in the children of
\* the entity its parent field names, and in no other children sequence.
C2_ChildListedOnceInParent ==
    status = "ok" =>
        \A h \in LiveHandles \ {graph.root} :
            LET p == base_of(graph, h).parent
            IN /\ is_valid_handle(graph, p)
               /\ Count(base_of(graph, p).children, h) = 1
               /\ \A q \in LiveHandles \ {p} : Count(base_of(graph, q).children, h) = 0

\* C2 witness: link_nodes has moved an entity under a parent other than the
\* root, next to a sibling that stayed under the root.
C2_Witness ==
    /\ status = "ok"
    /\ last.op = "link_nodes"
    /\ \E h \in LiveHandles \ {graph.root} :
          /\ base_of(graph, h).parent = last.b
          /\ last.b # graph.root
          /\ last.a = h
    /\ Len(base_of(graph, graph.root).children) >= 1

\* C3: when no link_nodes call puts an entity under itself or under one of
\* its descendants, the hierarchy has no cycle: no live entity is its own
\* ancestor and every live entity other than the root has the root among its
\* ancestors.
C3_NoCycles ==
    status = "ok" =>
        \A h \in LiveHandles :
            /\ h \notin Ancestors(graph, h)
            /\ h # graph.root => graph.root \in Ancestors(graph, h)

\* C4: the root handle always refers to a live entity of the arena.
C4_RootAlwaysValid ==
    is_valid_handle(graph, graph.root)

\* C5: remove_node(h) with a valid h completes and frees exactly the subtree
\* of h: the live count drops by the size of the subtree, h is in no
\* children sequence any more, and every entity outside the subtree keeps
\* its parent and its children other than h, in order.
RemovedExactlySubtree(g, h, g2) ==
    LET S == Subtree(g, h)
        without_h(seq) == SelectSeq(seq, LAMBDA x : x # h)
    IN /\ pool_handles(g2.pool) = pool_handles(g.pool) \ S
       /\ pool_alive_count(g2.pool) = pool_alive_count(g.pool) - Cardinality(S)
       /\ \A q \in pool_handles(g.pool) \ S :
             /\ base_of(g2, q).parent = base_of(g, q).parent
             /\ base_of(g2, q).children = without_h(base_of(g, q).children)
             /\ Count(base_of(g2, q).children, h) = 0

C5_RemoveNodeFreesSubtree ==
    [][ last'.op = "remove_node" =>
            /\ status' = "ok"
            /\ RemovedExactlySubtree(graph, last'.a, graph') ]_vars

\* C5 witness: a remove_node call freed a subtree of two or more entities and
\* left at least two entities alive.
C5_Witness ==
    /\ status = "ok"
    /\ last.op = "remove_node"
    /\ last.alive - pool_alive_count(graph.pool) >= 2
    /\ pool_alive_count(graph.pool) >= 2

\* ------------------------------------------------------------------ transforms

\* Nodes as callers hand them to add_node: a local scale and position, and a
\* local visibility.
TransformNodes ==
    { [DefaultBase EXCEPT !.scale = t[1], !.position = t[2], !.visibility = t[3]] :
        t \in { <<2, 1, TRUE>>, <<1, 1, FALSE>>, <<2, 0, TRUE>> } }

\* Trees of nodes with local transforms, built by add_node and link_nodes
\* (called as documented) and propagated by update_transforms.
NextTransform ==
    \/ \E node \in TransformNodes :
          pool_spawn_count(graph.pool) < MaxDataNodes /\ AddNode(node)
    \/ \E c \in LiveHandles \ {graph.root} :
          \E p \in LiveHandles \ Subtree(graph, c) : LinkNodes(c, p)
    \/ \E h \in LiveHandles \ {graph.root} : UnlinkNode(h)
    \/ UpdateTransforms

SpecTransform == Init /\ [][NextTransform]_vars

\* The product of the local matrices from the root down to h, root leftmost.
RECURSIVE ChainTransform(_, _)
ChainTransform(g, h) ==
    LET b == base_of(g, h)
    IN IF is_none(b.parent) THEN local_matrix(b)
       ELSE mat_mul(ChainTransform(g, b.parent), local_matrix(b))

\* C6: for every tree, after update_transforms each entity's global
\* transform is the product of the local transforms of its ancestor chain,
\* root leftmost and the entity rightmost, and its global visibility is true
\* exactly when it and all its ancestors are locally visible.
C6_GlobalsAreChainProducts ==
    (last.op = "update_transforms" /\ IsTree(graph)) =>
        /\ status = "ok"
        /\ graph.stack = <<>>
        /\ \A h \in LiveHandles :
              /\ base_of(graph, h).global_transform = ChainTransform(graph, h)
              /\ base_of(graph, h).global_visibility =
                    (\A a \in {h} \cup Ancestors(graph, h) : base_of(graph, a).visibility)

\* C6 witness: update_transforms ran on a chain root - a - b in which the
\* product a * b differs from b * a and b is hidden by an ancestor only.
C6_Witness ==
    /\ last.op = "update_transforms"
    /\ status = "ok"
    /\ IsTree(graph)
    /\ \E a \in LiveHandles, b \in LiveHandles :
          /\ base_of(graph, a).parent = graph.root
          /\ base_of(graph, b).parent = a
          /\ mat_mul(local_matrix(base_of(graph, a)), local_matrix(base_of(graph, b)))
                # mat_mul(local_matrix(base_of(graph, b)), local_matrix(base_of(graph, a)))
          /\ base_of(graph, b).visibility
          /\ ~base_of(graph, b).global_visibility

\* ------------------------------------------------------------------ scene

\* Nodes of the scene runs: plain ones, and ones that expire.
SceneNodes == { DefaultBase, [DefaultBase EXCEPT !.lifetime = Some(1)] }

\* A scene in use: nodes and rigid bodies come and go, nodes are bound to
\* bodies, and Scene::update runs its three stages in order.  Handles passed
\* in are valid at the time of the call and the root is never removed; the
\* bodies are created at the origin and stay at rest.
NextScene ==
    \/ \E node \in SceneNodes :
          pool_spawn_count(graph.pool) < MaxSceneNodes /\ AddNode(node)
    \/ \E c \in LiveHandles \ {graph.root} :
          \E p \in LiveHandles \ Subtree(graph, c) : LinkNodes(c, p)
    \/ \E h \in LiveHandles \ {graph.root} : SceneRemoveNode(h)
    \/ AddBody(ZERO)
    \/ \E b \in LiveBodies : RemoveBody(b)
    \/ \E n \in LiveHandles, b \in LiveBodies : Bind(n, b)
    \/ \E n \in { p[1] : p \in binder } : Unbind(n)
    \/ UpdatePhysics(1, {0})
    \/ UpdateAnimations
    \/ UpdateGraph

SpecScene == Init /\ [][NextScene]_vars

EntryAlive(p) == is_valid_handle(graph, p[1]) /\ is_valid_body_handle(physics, p[2])

C8_PruneKeepsExactlyAlivePairs ==
    last.op = "update_physics" =>
        /\ status = "ok"
        /\ binder = { p \in last.map : EntryAlive(p) }
        /\ \A p \in binder : base_of(graph, p[1]).position = body_position(physics, p[2])

\* C8 witness: node N was bound to body H, H was freed, and update_physics
\* has run: N is alive and no longer in the map.
C8_Witness ==
    /\ last.op = "update_physics"
    /\ status = "ok"
    /\ \E p \in last.map :
          /\ is_valid_handle(graph, p[1])
          /\ ~is_valid_body_handle(physics, p[2])
          /\ \A q \in binder : q[1] # p[1]

\* C9: the binder association is one-to-one: an entity is bound to one rigid
\* body at most and a rigid body to one entity at most.
C9_OneToOne ==
    \A p \in binder, q \in binder :
        /\ p[1] = q[1] => p[2] = q[2]
        /\ p[2] = q[2] => p[1] = q[1]

\* C9, amended: an entity is bound to one rigid body at most (a later bind of
\* the same entity replaces the body); one rigid body may be bound to several
\* entities.
C9_OneBodyPerEntity ==
    \A p \in binder, q \in binder : p[1] = q[1] => p[2] = q[2]

\* C9 witness: bind has given an entity that was bound already another body.
C9_Witness ==
    /\ last.op = "bind"
    /\ <<last.a, last.b>> \in binder
    /\ \E p \in last.map : p[1] = last.a /\ p[2] # last.b

\* ------------------------------------------------------------------ lifetimes

\* Nodes without a lifetime, with the shortest and with the longest one.
LifetimeNodes ==
    { DefaultBase } \cup
    { [DefaultBase EXCEPT !.lifetime = Some(t)] : t \in {1, MaxLifetime} }

\* Trees of nodes with lifetimes, and Graph::update_nodes called on them.
NextLifetime ==
    \/ \E node \in LifetimeNodes :
          pool_spawn_count(graph.pool) < MaxDataNodes /\ AddNode(node)
    \/ \E c \in LiveHandles \ {graph.root} :
          \E p \in LiveHandles \ Subtree(graph, c) : LinkNodes(c, p)
    \/ \E dt \in 1..MaxLifetime : UpdateNodes(dt)

SpecLifetime == Init /\ [][NextLifetime]_vars

\* C10: one update_nodes(dt) call removes every entity whose lifetime minus
\* dt is <= 0 with its whole subtree, leaves no live entity with a lifetime
\* <= 0, and keeps every other entity alive with its lifetime, if present,
\* lowered by exactly dt.
C10_UpdateNodesExpiry ==
    [][ (last'.op = "update_nodes" /\ status' = "ok") =>
            LET dt == last'.n
                doomed == UNION { Subtree(graph, h) : h \in Expiring(graph, dt) }
            IN /\ pool_handles(graph'.pool) = pool_handles(graph.pool) \ doomed
               /\ \A h \in pool_handles(graph'.pool) :
                     LET before == base_of(graph, h).lifetime
                         after == base_of(graph', h).lifetime
                     IN IF IsSomeOpt(before)
                        THEN after = Some(Unwrap(before) - dt) /\ Unwrap(after) > 0
                        ELSE after = None ]_vars

\* C10 witness: an update_nodes call removed an expired entity together with
\* a descendant, and the root is still there.
C10_Witness ==
    /\ last.op = "update_nodes"
    /\ status = "ok"
    /\ last.alive - pool_alive_count(graph.pool) >= 2
    /\ is_valid_handle(graph, graph.root)

\* ------------------------------------------------------------------ animations

\* The tracks of an animation made for the nodes of hs, one track a node, in
\* slot order.
RECURSIVE TracksFor(_)
TracksFor(hs) ==
    IF hs = {} THEN <<>>
    ELSE LET h == CHOOSE x \in hs : \A y \in hs : x.index <= y.index
         IN <<[node |-> h, position |-> Modulus - 1]>> \o TracksFor(hs \ {h})

\* The animations a caller makes for the live nodes: one or two tracks.
LiveTracks ==
    { TracksFor(hs) : hs \in { x \in SUBSET LiveHandles : Cardinality(x) \in {1, 2} } }

\* A scene with animations: nodes are added and moved, animations are made
\* for live nodes, and Scene::remove_node is called with valid handles.
NextAnim ==
    \/ pool_spawn_count(graph.pool) < MaxDataNodes /\ AddNode(DefaultBase)
    \/ \E c \in LiveHandles \ {graph.root} :
          \E p \in LiveHandles \ Subtree(graph, c) : LinkNodes(c, p)
    \/ \E tracks \in LiveTracks :
          Len(animations) < MaxAnimations /\ AddAnimation(tracks)
    \/ \E h \in LiveHandles : SceneRemoveNode(h)

SpecAnim == Init /\ [][NextAnim]_vars

\* The nodes an animation has a track for.
Targets(animation) ==
    { animation.tracks[k].node : k \in 1..Len(animation.tracks) }

\* C11: Scene.remove_node(h) with a valid h removes, as a whole, every
\* animation with at least one track for h or a descendant of h, keeps every
\* other animation, and removes the subtree of h from the graph.
C11_SceneRemoveNodeDropsAnimations ==
    [][ last'.op = "scene_remove_node" =>
            LET S == Subtree(graph, last'.a)
            IN /\ status' = "ok"
               /\ animations' =
                     SelectSeq(animations, LAMBDA an : Targets(an) \cap S = {})
               /\ pool_handles(graph'.pool) = pool_handles(graph.pool) \ S ]_vars

\* C11 witness: Scene.remove_node removed an entity with a descendant, an
\* animation went with them and another one stayed.
C11_Witness ==
    /\ status = "ok"
    /\ last.op = "scene_remove_node"
    /\ last.alive - pool_alive_count(graph.pool) >= 2
    /\ Len(animations) >= 1
    /\ last.anims > Len(animations)

\* ------------------------------------------------------------------ frames

\* A scene whose nodes are driven by rigid bodies and have animations made
\* for them, and Scene::update called on it.  The bodies are created away
\* from the origin and stay at rest; the tracks hold another position.
NextFrame ==
    \/ pool_spawn_count(graph.pool) < MaxSceneNodes /\ AddNode(DefaultBase)
    \/ pool_spawn_count(physics) < MaxFrameBodies /\ AddBody(1)
    \/ \E n \in LiveHandles, b \in LiveBodies : Bind(n, b)
    \/ \E tracks \in LiveTracks :
          Len(animations) < MaxFrameAnimations /\ AddAnimation(tracks)
    \/ UpdatePhysics(1, {0})
    \/ UpdateAnimations
    \/ UpdateGraph

SpecFrame == Init /\ [][NextFrame]_vars

\* The global transform of h when its parent's global transform is as stored
\* and its local position is position.
GlobalWithPosition(g, h, position) ==
    LET b == base_of(g, h)
        parent_global == IF is_some(b.parent) /\ is_valid_handle(g, b.parent)
                         THEN base_of(g, b.parent).global_transform ELSE IDENTITY
    IN mat_mul(parent_global, <<b.scale, position>>)

\* The positions the tracks of the animations hold for h.
TrackPositions(h) ==
    UNION { { animations[i].tracks[k].position :
                k \in { j \in 1..Len(animations[i].tracks) :
                          animations[i].tracks[j].node = h } } :
            i \in 1..Len(animations) }

\* C12: Scene.update runs physics step and binder sync, then the animation
\* update, then update_nodes; so for a node bound to a body and targeted by a
\* track, the local position the frame's transform propagation uses is the
\* one of the animation, not the one written by physics.
C12_AnimationPositionWins ==
    (last.op = "update" /\ status = "ok") =>
        \A p \in binder : \A position \in TrackPositions(p[1]) :
            /\ base_of(graph, p[1]).position = position
            /\ base_of(graph, p[1]).global_transform =
                  GlobalWithPosition(graph, p[1], position)

\* C12, amended: the stages run in that order, and the animation update is
\* given the time step alone and writes no entity; so for a node bound to a
\* body, targeted by a track or not, the local position the frame's transform
\* propagation uses is the body's, written by the binder sync.
C12_StagesInOrderPhysicsPositionUsed ==
    /\ last.op = "update_animations" => pc = "after_animations"
    /\ last.op = "update_physics" => pc = "after_physics"
    /\ (last.op = "update" /\ status = "ok") =>
          /\ pc = "idle"
          /\ \A k \in 1..Len(animations) : animations[k].pose # <<>>
          /\ \A p \in binder :
                /\ base_of(graph, p[1]).position = body_position(physics, p[2])
                /\ base_of(graph, p[1]).global_transform =
                      GlobalWithPosition(graph, p[1], body_position(physics, p[2]))

\* C12 witness: Scene.update has run on a node other than the root that is
\* bound to a body and has a track whose position is not the body's.
C12_Witness ==
    /\ last.op = "update"
    /\ status = "ok"
    /\ \E p \in binder :
          /\ p[1] # graph.root
          /\ TrackPositions(p[1]) # {}
          /\ body_position(physics, p[2]) \notin TrackPositions(p[1])

\* ------------------------------------------------------------------ add_node

\* C17: a graph from Graph::new holds one live entity, the root, and its
\* root handle is not NONE; every add_node call raises the live count by one
\* and returns a valid handle whose entity has the root as parent and is the
\* last of the root's children, the other children keeping their order.
C17_NewThenAddNodeAppendsToRoot ==
    /\ (pool_alive_count(graph.pool) = 1 /\ is_some(graph.root)
          /\ pool_handles(graph.pool) = {graph.root})
    /\ [][ last'.op = "add_node" =>
              /\ status' = "ok"
              /\ pool_alive_count(graph'.pool) = pool_alive_count(graph.pool) + 1
              /\ is_valid_handle(graph', last'.a)
              /\ ~is_valid_handle(graph, last'.a)
              /\ is_valid_handle(graph, graph.root)
              /\ graph'.root = graph.root
              /\ base_of(graph', last'.a).parent = graph.root
              /\ base_of(graph', graph.root).children =
                    Append(base_of(graph, graph.root).children, last'.a) ]_vars

\* ------------------------------------------------------------------ link_nodes

\* seq without the handle h.
Without(seq, h) == SelectSeq(seq, LAMBDA x : x # h)

\* C20: link_nodes(c, p) with valid distinct handles leaves c.parent = p and
\* c the last of p's children; c is in no other children sequence than it
\* was, and not in its former parent's; the other handles keep their order
\* in every children sequence; no entity but c has its parent changed; a c
\* that was a child of p already moves to the end and is there once.
C20_LinkNodesFrame ==
    [][ (last'.op = "link_nodes" /\ last'.a # last'.b) =>
            LET c == last'.a
                p == last'.b
            IN /\ status' = "ok"
               /\ pool_handles(graph'.pool) = pool_handles(graph.pool)
               /\ base_of(graph', c).parent = p
               /\ base_of(graph', p).children =
                     Append(Without(base_of(graph, p).children, c), c)
               /\ Count(base_of(graph', p).children, c) = 1
               /\ \A q \in pool_handles(graph.pool) \ {p} :
                     base_of(graph', q).children = Without(base_of(graph, q).children, c)
               /\ \A q \in pool_handles(graph.pool) \ {c} :
                     base_of(graph', q).parent = base_of(graph, q).parent ]_vars

\* C20 witness: link_nodes put an entity behind the child that a parent
\* other than the root had already.
C20_Witness ==
    /\ status = "ok"
    /\ last.op = "link_nodes"
    /\ last.a # last.b
    /\ last.b # graph.root
    /\ is_valid_handle(graph, last.b)
    /\ LET children == base_of(graph, last.b).children
       IN /\ Len(children) >= 2
          /\ children[Len(children)] = last.a

\* ------------------------------------------------------------------ stale handles

\* Handles that are not valid: NONE, the handles of the freed entities, and
\* the handle the next fresh slot would get, which was never issued.
StaleHandles ==
    {NONE}
    \cup { [index |-> i, generation |-> graph.pool.records[i].generation] :
             i \in { j \in 1..pool_get_capacity(graph.pool) :
                       ~IsSomeOpt(graph.pool.records[j].payload) } }
    \cup { [index |-> pool_get_capacity(graph.pool) + 1, generation |-> 1] }

\* A scene with animations in which nodes are also removed through the graph
\* alone, and both remove_node calls are made with handles that are not
\* valid as well.
NextStale ==
    \/ pool_spawn_count(graph.pool) < MaxDataNodes /\ AddNode(DefaultBase)
    \/ \E tracks \in LiveTracks :
          Len(animations) < MaxAnimations /\ AddAnimation(tracks)
    \/ \E h \in LiveHandles \ {graph.root} : RemoveNode(h)
    \/ \E h \in LiveHandles \ {graph.root} : SceneRemoveNode(h)
    \/ \E h \in StaleHandles : RemoveNode(h)
    \/ \E h \in StaleHandles : SceneRemoveNode(h)

SpecStale == Init /\ [][NextStale]_vars

\* C18: Graph.remove_node and Scene.remove_node called with a handle that is
\* not valid end in a fatal stop, before any entity is freed, any link is
\* changed or any animation is removed.
C18_StaleRemoveStopsFirst ==
    [][ (last'.op \in {"remove_node", "scene_remove_node"}
            /\ ~is_valid_handle(graph, last'.a)) =>
            /\ status' = "panicked"
            /\ graph'.pool = graph.pool
            /\ graph'.root = graph.root
            /\ animations' = animations ]_vars

\* C18 witness: Scene.remove_node stopped on the handle of an entity that
\* was freed before, with an animation made for that entity still there.
C18_Witness ==
    /\ status = "panicked"
    /\ last.op = "scene_remove_node"
    /\ last.a.index \in 1..pool_get_capacity(graph.pool)
    /\ \E k \in 1..Len(animations) : last.a \in Targets(animations[k])

\* ------------------------------------------------------------------ visiting

\* Graphs are built and taken apart, saved to the visitor and loaded from it,
\* into the graph at hand or into a default one made for it.
NextVisit ==
    \/ pool_spawn_count(graph.pool) < MaxDataNodes /\ AddNode(DefaultBase)
    \/ \E h \in LiveHandles : RemoveNode(h)
    \/ DefaultScene
    \/ VisitGraph(TRUE)
    \/ VisitGraph(FALSE)

SpecVisit == Init /\ [][NextVisit]_vars

\* C19: visiting a graph in reading mode when its arena is not empty is a
\* fatal stop that comes before the root handle or the arena is read;
\* visiting in writing mode never stops for this reason; a graph from
\* Graph::new holds the root, so only an empty graph is loaded into.
C19_LoadIntoNonEmptyStops ==
    [][ /\ (last'.op = "visit_read" /\ pool_alive_count(graph.pool) # 0) =>
              (status' = "panicked" /\ graph' = graph)
        /\ last'.op = "visit_write" => (status' = "ok" /\ graph' = graph)
        /\ (last'.op = "visit_read" /\ graph' # graph) =>
              pool_alive_count(graph.pool) = 0 ]_vars

\* C19, amended: in reading mode with an arena that is not empty the visit
\* reads neither the root handle nor the arena: it is a fatal stop when the
\* visitor holds the graph's region, and it returns the error of
\* enter_region, without a fatal stop, when the visitor does not.  Writing
\* never stops, and only a graph with an arena of capacity zero is loaded
\* into.
C19_LoadIntoNonEmptyReadsNothing ==
    [][ /\ (last'.op = "visit_read" /\ pool_alive_count(graph.pool) # 0) =>
              /\ graph' = graph
              /\ status' = (IF IsSomeOpt(visitor) THEN "panicked" ELSE "ok")
        /\ last'.op = "visit_write" =>
              /\ status' = "ok"
              /\ graph' = graph
              /\ visitor' = Some([root |-> graph.root, pool |-> graph.pool])
        /\ (last'.op = "visit_read" /\ graph' # graph) =>
              (pool_get_capacity(graph.pool) = 0 /\ graph = graph_default) ]_vars

\* C19 witness: a graph was saved, changed and then visited in reading mode
\* while it held entities: a fatal stop.
C19_Witness ==
    /\ status = "panicked"
    /\ last.op = "visit_read"
    /\ IsSomeOpt(visitor)
    /\ pool_alive_count(graph.pool) >= 2
    /\ Unwrap(visitor).pool # graph.pool

\* A saved graph with more than its root has been loaded into a default one.
C19_Loaded ==
    /\ status = "ok"
    /\ last.op = "visit_read"
    /\ IsSomeOpt(visitor)
    /\ graph.pool = Unwrap(visitor).pool
    /\ pool_alive_count(graph.pool) >= 2

\* ------------------------------------------------------------------ copying

\* The node a caller adds to a graph that is copied: each one sits at a place
\* of its own, given by the slot it goes to, and every other one is named.
CopyNodes ==
    LET i == pool_spawn_handle(graph.pool).index
    IN { [DefaultBase EXCEPT !.name = IF i % 2 = 0 THEN "a" ELSE "",
                             !.position = i % Modulus] }

\* A tree is built in the graph and subtrees of it are copied into the
\* destination graph, from which whole copies are removed again.
NextCopy ==
    \/ \E node \in CopyNodes :
          pool_spawn_count(graph.pool) < MaxDataNodes /\ AddNode(node)
    \/ \E c \in LiveHandles \ {graph.root} :
          \E p \in LiveHandles \ Subtree(graph, c) : LinkNodes(c, p)
    \/ \E h \in LiveHandles :
          /\ pool_spawn_count(dest.pool) + Cardinality(Subtree(graph, h)) <= MaxSpawns
          /\ CopyNode(h)
    \/ \E h \in Elems(base_of(dest, dest.root).children) : RemoveDestNode(h)

SpecCopy == Init /\ [][NextCopy]_vars

\* The data of a node that a copy carries over.
Carried(base) ==
    [base EXCEPT !.parent = NONE, !.children = <<>>, !.original = NONE,
                 !.surfaces = <<>>]

\* C16: copy_node(h, dest) makes in dest a subtree isomorphic to the subtree
\* of h in the source graph, with as many entities and the children in the
\* same order at every level; the original field of each clone is the handle
\* of its source entity; the clone of h is a child of dest's root; the
\* source graph is unchanged.
C16_CopyIsIsomorphic ==
    [][ last'.op = "copy_node" =>
            LET h == last'.a
                S == Subtree(graph, h)
                New == pool_handles(dest'.pool) \ pool_handles(dest.pool)
                F(s) == CHOOSE d \in New : base_of(dest', d).original = s
            IN /\ status' = "ok"
               /\ graph' = graph
               /\ Cardinality(New) = Cardinality(S)
               /\ \A d \in New : base_of(dest', d).original \in S
               /\ \A s \in S : \E d \in New : base_of(dest', d).original = s
               /\ \A s \in S :
                     /\ base_of(dest', F(s)).children =
                           [k \in 1..Len(base_of(graph, s).children) |->
                               F(base_of(graph, s).children[k])]
                     /\ base_of(dest', F(s)).parent =
                           (IF s = h THEN dest.root ELSE F(base_of(graph, s).parent))
                     /\ Carried(base_of(dest', F(s))) = Carried(base_of(graph, s))
               /\ last'.b = F(h)
               /\ base_of(dest', dest.root).children =
                     Append(base_of(dest, dest.root).children, F(h))
               /\ \A d \in pool_handles(dest.pool) \ {dest.root} :
                     base_of(dest', d) = base_of(dest, d) ]_vars

\* C16 witness: copy_node copied an entity with two children that differ;
\* the handle of its clone is not the handle it has in the source graph.
C16_Witness ==
    /\ status = "ok"
    /\ last.op = "copy_node"
    /\ is_valid_handle(dest, last.b)
    /\ last.b # last.a
    /\ LET children == base_of(dest, last.b).children
       IN /\ Len(children) = 2
          /\ base_of(dest, children[1]).name # base_of(dest, children[2]).name

\* ------------------------------------------------------------------ resolving

\* The resource the nodes are instantiated from: a model whose graph holds,
\* under its root, the mesh "Mesh" and the node "Bone", the one surface of the
\* mesh having that node as its bone.
BoneMeshModel ==
    LET mesh == [DefaultBase EXCEPT !.kind = "Mesh", !.name = "Mesh"]
        e1 == add_node(Exec(graph_new), mesh)
        mesh_handle == pool_spawn_handle(graph_new.pool)
        bone_handle == pool_spawn_handle(e1.graph.pool)
        e2 == add_node(e1, [DefaultBase EXCEPT !.name = "Bone"])
    IN [graph |-> set_base(e2.graph, mesh_handle,
                    [base_of(e2.graph, mesh_handle) EXCEPT
                        !.surfaces = <<[data |-> "skin", bones |-> <<bone_handle>>]>>])]

ResourceMesh == find_by_name_from_root(BoneMeshModel.graph, "Mesh").out
ResourceBone == find_by_name_from_root(BoneMeshModel.graph, "Bone").out

\* Nodes as they are after a load, before resolve: bones and meshes with and
\* without the resource, a mesh flagged as the root of an instance, and nodes
\* whose name no node of the resource has.
ResolveNodes ==
    { [DefaultBase EXCEPT !.name = "Bone"],
      [DefaultBase EXCEPT !.name = "Bone", !.resource = Some(BoneMeshModel)],
      [DefaultBase EXCEPT !.kind = "Mesh", !.name = "Mesh",
                          !.resource = Some(BoneMeshModel)],
      [DefaultBase EXCEPT !.kind = "Mesh", !.name = "Mesh",
                          !.resource = Some(BoneMeshModel),
                          !.is_resource_instance = TRUE],
      [DefaultBase EXCEPT !.kind = "Mesh", !.name = "Bone",
                          !.resource = Some(BoneMeshModel),
                          !.surfaces = <<[data |-> "stale", bones |-> <<>>]>>],
      [DefaultBase EXCEPT !.name = "Other", !.resource = Some(BoneMeshModel)],
      [DefaultBase EXCEPT !.kind = "Mesh", !.name = "Other",
                          !.resource = Some(BoneMeshModel),
                          !.surfaces = <<[data |-> "stale", bones |-> <<>>]>>] }

\* Trees of such nodes are built and resolve is called on them, once or more.
NextResolve ==
    \/ \E node \in ResolveNodes :
          pool_spawn_count(graph.pool) < MaxDataNodes /\ AddNode(node)
    \/ \E c \in LiveHandles \ {graph.root} :
          \E p \in LiveHandles \ Subtree(graph, c) : LinkNodes(c, p)
    \/ Resolve

SpecResolve == Init /\ [][NextResolve]_vars

\* What resolve is there to set: the original handle and the surface list
\* (with the bone handles) of every entity.
Resolved(g) ==
    [h \in pool_handles(g.pool) |->
        [original |-> base_of(g, h).original, surfaces |-> base_of(g, h).surfaces]]

\* C13: resolve is idempotent: a second call right after the first leaves
\* every entity with the original handle, the surface list and the bone
\* handles the first call gave it.
C13_ResolveIdempotent ==
    [][ (last.op = "resolve" /\ status = "ok" /\ last'.op = "resolve") =>
            /\ status' = "ok"
            /\ Resolved(graph') = Resolved(graph) ]_vars

\* C13 witness: resolve has run twice in a row on a graph in which a mesh
\* got its surfaces from the resource and a bone handle that points into the
\* graph.
C13_Witness ==
    /\ status = "ok"
    /\ last.op = "resolve"
    /\ last.n = 2
    /\ \E h \in LiveHandles :
          /\ base_of(graph, h).surfaces # <<>>
          /\ base_of(graph, h).surfaces[1].data = "skin"
          /\ is_valid_handle(graph, base_of(graph, h).surfaces[1].bones[1])
          /\ base_of(graph, h).surfaces[1].bones[1] # ResourceBone

\* The entities A and B of the scenario: the graph holds its root, a child A
\* of the root named "Bone" and a mesh child B of A named "Mesh" that has the
\* resource, and nothing else.
IsScenario(g, A, B) ==
    /\ pool_handles(g.pool) = {g.root, A, B}
    /\ Cardinality({g.root, A, B}) = 3
    /\ base_of(g, A).parent = g.root
    /\ base_of(g, A).name = "Bone"
    /\ base_of(g, B).parent = A
    /\ base_of(g, B).kind = "Mesh"
    /\ base_of(g, B).name = "Mesh"
    /\ base_of(g, B).resource = Some(BoneMeshModel)

\* B has the surfaces of the resource mesh, with A as the bone.
HasResourceSurfaces(g, A, B) ==
    LET mine == base_of(g, B).surfaces
        theirs == base_of(BoneMeshModel.graph, ResourceMesh).surfaces
    IN /\ Len(mine) = Len(theirs)
       /\ \A k \in 1..Len(mine) :
             /\ mine[k].data = theirs[k].data
             /\ mine[k].bones = <<A>>

\* C14: in the graph root - A "Bone" - mesh B "Mesh", B with the resource
\* that holds "Bone" and the mesh "Mesh" whose one surface has that "Bone" as
\* its bone: after resolve B's surfaces are the resource mesh's and B's bone
\* handle is A's handle, not the resource node's.
C14_ScenarioBoneIsA ==
    (last.op = "resolve" /\ status = "ok") =>
        \A A \in LiveHandles, B \in LiveHandles :
            IsScenario(graph, A, B) => HasResourceSurfaces(graph, A, B)

\* C14, amended: the same, for a graph in which A has the resource as well
\* (so that resolve gives A the resource "Bone" as its original) and B is
\* not flagged as the root of an instance.
C14_ScenarioBoneIsResolvedA ==
    (last.op = "resolve" /\ status = "ok") =>
        \A A \in LiveHandles, B \in LiveHandles :
            (/\ IsScenario(graph, A, B)
             /\ base_of(graph, A).resource = Some(BoneMeshModel)
             /\ ~base_of(graph, B).is_resource_instance) =>
                /\ HasResourceSurfaces(graph, A, B)
                /\ base_of(graph, A).original = ResourceBone
                /\ base_of(graph, B).original = ResourceMesh

\* C14 witness: resolve has run on the scenario's graph, A with the
\* resource and a handle that differs from the one the resource node "Bone"
\* has in the resource's graph, and B's bone is A.
C14_Witness ==
    /\ last.op = "resolve"
    /\ status = "ok"
    /\ \E A \in LiveHandles, B \in LiveHandles :
          /\ IsScenario(graph, A, B)
          /\ base_of(graph, A).resource = Some(BoneMeshModel)
          /\ ~base_of(graph, B).is_resource_instance
          /\ base_of(graph, B).surfaces[1].bones = <<A>>
          /\ A # ResourceBone

\* The entities with a resource none of whose nodes has their name.
Unmatched(g) ==
    { h \in pool_handles(g.pool) :
        /\ IsSomeOpt(base_of(g, h).resource)
        /\ \A r \in pool_handles(Unwrap(base_of(g, h).resource).graph.pool) :
              base_of(Unwrap(base_of(g, h).resource).graph, r).name # base_of(g, h).name }

\* C15: an entity with a resource whose graph has no node of the entity's
\* name is skipped by both passes of resolve: resolve completes without a
\* fatal stop and the entity keeps its original handle and its surfaces.
C15_UnmatchedNameSkipped ==
    [][ (last'.op = "resolve" /\ Unmatched(graph) # {}) =>
            /\ status' = "ok"
            /\ \A h \in Unmatched(graph) :
                  /\ base_of(graph', h).original = base_of(graph, h).original
                  /\ base_of(graph', h).surfaces = base_of(graph, h).surfaces ]_vars

\* The part of C15 that holds: an unmatched entity that is not a mesh is
\* skipped, and resolve stops only when an unmatched entity is a mesh.
C15_UnmatchedNonMeshSkipped ==
    [][ last'.op = "resolve" =>
            /\ (status' = "ok") =
                  (\A h \in Unmatched(graph) : base_of(graph, h).kind # "Mesh")
            /\ \A h \in Unmatched(graph) :
                  /\ is_valid_handle(graph', h)
                  /\ base_of(graph', h).original = base_of(graph, h).original
                  /\ base_of(graph', h).surfaces = base_of(graph, h).surfaces ]_vars

\* ------------------------------------------------------------------ unlink_node

\* The node a caller adds to a graph whose nodes are moved about: each one
\* sits at a place of its own, given by the slot it goes to.
PlacedNodes ==
    LET i == pool_spawn_handle(graph.pool).index
    IN { [DefaultBase EXCEPT !.position = i % Modulus] }

\* Trees of placed nodes, in which entities other than the root are moved
\* under other entities and detached again.
NextUnlink ==
    \/ \E node \in PlacedNodes : AddNode(node)
    \/ \E c \in LiveHandles \ {graph.root} :
          \E p \in LiveHandles \ Subtree(graph, c) : LinkNodes(c, p)
    \/ \E h \in LiveHandles \ {graph.root} : UnlinkNode(h)

SpecUnlink == Init /\ [][NextUnlink]_vars

\* C21: unlink_node(h) on a valid non-root handle leaves h with the root as
\* its parent, h the last of the root's children and there exactly once, h's
\* local position at the origin, and h's children sequence and all of h's
\* descendants unchanged.
C21_UnlinkNodeFrame ==
    [][ (last'.op = "unlink_node" /\ last'.a # graph.root) =>
            LET h == last'.a
                children == base_of(graph', graph.root).children
            IN /\ status' = "ok"
               /\ graph'.root = graph.root
               /\ pool_handles(graph'.pool) = pool_handles(graph.pool)
               /\ base_of(graph', h).parent = graph.root
               /\ children = Append(Without(base_of(graph, graph.root).children, h), h)
               /\ Count(children, h) = 1
               /\ base_of(graph', h).position = ZERO
               /\ base_of(graph', h).children = base_of(graph, h).children
               /\ \A d \in Descendants(graph, h) : base_of(graph', d) = base_of(graph, d)
               /\ Descendants(graph', h) = Descendants(graph, h) ]_vars

\* C21 witness: unlink_node has detached an entity that sat away from the
\* origin and has a child; it now stands in the root's children behind an
\* entity that was added after it.
C21_Witness ==
    /\ status = "ok"
    /\ last.op = "unlink_node"
    /\ is_valid_handle(graph, last.a)
    /\ last.a.index % Modulus # ZERO
    /\ base_of(graph, last.a).position = ZERO
    /\ base_of(graph, last.a).children # <<>>
    /\ LET children == base_of(graph, graph.root).children
       IN /\ Len(children) >= 2
          /\ children[Len(children)] = last.a
          /\ children[Len(children) - 1].index > last.a.index

\* ------------------------------------------------------------------ update pass

\* As NextTree, with update_transforms called on the graphs that come about.
NextPass ==
    \/ AddNode(DefaultBase)
    \/ \E c \in LiveHandles : \E p \in LiveHandles \ Subtree(graph, c) : LinkNodes(c, p)
    \/ \E h \in LiveHandles : UnlinkNode(h)
    \/ \E h \in LiveHandles : RemoveNode(h)
    \/ UpdateTransforms

SpecPass == Init /\ [][NextPass]_vars

\* The entities one update_transforms pass on g works on, in order.
Processed(g) ==
    update_transforms_order(Exec([g EXCEPT !.stack = <<g.root>>]),
                            pool_get_capacity(g.pool) + 1, <<>>)

\* The pass on g that ended in g2 with status st came to an end, worked on
\* every live entity once, on each one after its parent, and left the scratch
\* stack empty.
PassVisitsEachOnce(g, g2, st) ==
    LET order == Processed(g)
    IN /\ st = "ok"
       /\ g2.stack = <<>>
       /\ Elems(order) = pool_handles(g.pool)
       /\ \A h \in pool_handles(g.pool) :
             /\ Count(order, h) = 1
             /\ is_some(base_of(g, h).parent) =>
                   /\ position_of(order, base_of(g, h).parent) # 0
                   /\ position_of(order, base_of(g, h).parent) < position_of(order, h)

\* C22: in every graph reachable through add_node, link_nodes, unlink_node
\* and remove_node with valid handles, one update_transforms pass terminates,
\* works on every live entity exactly once and on each entity only after its
\* parent, and ends with the scratch stack empty.
C22_PassVisitsEachOnce ==
    [][ last'.op = "update_transforms" =>
            PassVisitsEachOnce(graph, graph', status') ]_vars

\* The part of C22 that holds: the same for every pass on a graph that is a
\* tree hanging from its root.
C22_TreePassVisitsEachOnce ==
    [][ (last'.op = "update_transforms" /\ IsTree(graph)) =>
            PassVisitsEachOnce(graph, graph', status') ]_vars

\* A pass on a tree of depth two or more with a root of two children has run.
C22_TreePassRan ==
    /\ last.op = "update_transforms"
    /\ status = "ok"
    /\ IsTree(graph)
    /\ Len(base_of(graph, graph.root).children) >= 2
    /\ \E h \in LiveHandles \ {graph.root} : base_of(graph, h).children # <<>>

\* ------------------------------------------------------------------ traversal

\* Graph::traverse_iter(from) (kind "node") and Graph::traverse_handle_iter
\* (kind "handle"): an iterator with a stack of its own that holds from.  out
\* lists the entities yielded so far, item is what the last call of next
\* returned.
TraverseIter(kind, from) ==
    /\ Ready
    /\ iter' = Some([kind |-> kind, from |-> from, stack |-> <<from>>,
                     out |-> <<>>, item |-> None])
    /\ last' = Op(IF kind = "node" THEN "traverse_iter" ELSE "traverse_handle_iter",
                  from, NONE, 0)
    /\ UNCHANGED <<graph, status, dest, visitor, renderVars>>
    /\ UNCHANGED sceneVars

\* Iterator::next on the iterator at hand.  The call's number argument is 0
\* when it yields an entity, 1 for the first call that returns None and 2
\* for a call that follows one.
IterNext ==
    /\ Ready
    /\ IsSomeOpt(iter)
    /\ LET it == Unwrap(iter)
           r == IF it.kind = "node" THEN node_iter_next(graph, it.stack)
                ELSE handle_iter_next(graph, it.stack)
       IN /\ iter' = Some([it EXCEPT
                !.stack = r.stack,
                !.item = r.item,
                !.out = IF IsSomeOpt(r.item)
                        THEN Append(it.out, it.stack[Len(it.stack)]) ELSE it.out])
          /\ status' = r.status
          /\ last' = Op("next", NONE, NONE,
                        IF IsSomeOpt(r.item) THEN 0
                        ELSE IF last.op = "next" /\ last.n > 0 THEN 2 ELSE 1)
    /\ UNCHANGED <<graph, dest, visitor, renderVars>>
    /\ UNCHANGED sceneVars

\* The iterator goes out of scope; the graph can be changed again.
DropIter ==
    /\ Ready
    /\ IsSomeOpt(iter)
    /\ iter' = None
    /\ last' = Op("drop", NONE, NONE, 0)
    /\ UNCHANGED <<graph, status, dest, visitor, renderVars>>
    /\ UNCHANGED sceneVars

\* Trees are built and traversed from any of their entities; while an
\* iterator borrows the graph nothing else is done with it.
NextIter ==
    \/ iter = None /\ AddNode(DefaultBase)
    \/ /\ iter = None
       /\ \E c \in LiveHandles \ {graph.root} :
             \E p \in LiveHandles \ Subtree(graph, c) : LinkNodes(c, p)
    \/ \E kind \in {"node", "handle"}, from \in LiveHandles :
          iter = None /\ TraverseIter(kind, from)
    \/ IterNext
    \/ DropIter

SpecIter == Init /\ [][NextIter]_vars

\* The iterator state it is as the claim has it for the tree g: what was
\* yielded so far are entities of the subtree of from, each one once and
\* after its parent, the children of an entity last child first; at the end
\* all of the subtree was yielded.
TraversalInOrder(g, it) ==
    LET S == Subtree(g, it.from)
        pos(h) == position_of(it.out, h)
    IN /\ Elems(it.out) \subseteq S
       /\ \A h \in Elems(it.out) : Count(it.out, h) = 1
       /\ \A h \in Elems(it.out) \ {it.from} :
             /\ pos(base_of(g, h).parent) # 0
             /\ pos(base_of(g, h).parent) < pos(h)
       /\ \A p \in S :
             LET children == base_of(g, p).children
             IN \A i \in 1..Len(children), j \in 1..Len(children) :
                   (i < j /\ pos(children[i]) # 0) =>
                       (pos(children[j]) # 0 /\ pos(children[j]) < pos(children[i]))
       /\ it.stack = <<>> => Elems(it.out) = S

\* C23: traverse_iter(from) and traverse_handle_iter(from) on a tree yield
\* every entity of from's subtree exactly once and nothing else, each entity
\* after its parent, the children of an entity in the reverse of their
\* stored order, and then return None on every later call; the traversal
\* changes neither the graph nor its scratch stack.
C23_TraversalYieldsSubtree ==
    [][ (last'.op \in {"traverse_iter", "traverse_handle_iter", "next"}
            /\ IsTree(graph)) =>
            LET it == Unwrap(iter')
            IN /\ status' = "ok"
               /\ graph' = graph
               /\ TraversalInOrder(graph, it)
               /\ last'.op = "next" =>
                     LET before == Unwrap(iter)
                     IN IF before.stack = <<>>
                        THEN it.item = None /\ it.stack = <<>> /\ it.out = before.out
                        ELSE /\ Len(it.out) = Len(before.out) + 1
                             /\ it.item =
                                   (IF it.kind = "node"
                                    THEN Some(Ref(graph, it.out[Len(it.out)]))
                                    ELSE Some(it.out[Len(it.out)])) ]_vars

\* C23 witness: an iterator that started at an entity other than the root
\* with two children and a grandchild has yielded them all, last child
\* first, and has then returned None twice.
C23_Witness ==
    /\ status = "ok"
    /\ last.op = "next"
    /\ last.n = 2
    /\ IsSomeOpt(iter)
    /\ LET it == Unwrap(iter)
       IN /\ it.from # graph.root
          /\ it.item = None
          /\ Len(it.out) >= 3
          /\ Len(base_of(graph, it.from).children) = 2
          /\ it.out[2] = base_of(graph, it.from).children[2]

\* ------------------------------------------------------------------ find_by_name

\* The node a caller adds to a graph that is searched by name: the nodes are
\* named "a" and "b" in turn, by the slot they go to.
NamedNodes ==
    LET i == pool_spawn_handle(graph.pool).index
    IN { [DefaultBase EXCEPT !.name = IF i % 2 = 0 THEN "a" ELSE "b"] }

\* The names searched for: two that nodes have, one that no node has, and the
\* root's.
SearchNames == <<"a", "b", "c", "__ROOT__">>

\* Graph::find_by_name(from, name), the name given by its place in
\* SearchNames; the call's second handle is the one returned.
FindByName(from, k) ==
    /\ Ready
    /\ LET r == find_by_name(graph, from, SearchNames[k],
                             pool_get_capacity(graph.pool) + 1)
       IN /\ status' = r.status
          /\ last' = Op("find_by_name", from, r.out, k)
    /\ UNCHANGED graph
    /\ UNCHANGED sceneVars
    /\ UNCHANGED otherVars

\* Trees of named nodes are built and searched from any of their entities.
NextFind ==
    \/ \E node \in NamedNodes : AddNode(node)
    \/ \E c \in LiveHandles \ {graph.root} :
          \E p \in LiveHandles \ Subtree(graph, c) : LinkNodes(c, p)
    \/ \E from \in LiveHandles, k \in 1..Len(SearchNames) : FindByName(from, k)

SpecFind == Init /\ [][NextFind]_vars

\* The entities of the subtree of h in depth-first pre-order, the children of
\* each entity in their stored order.
RECURSIVE PreOrder(_, _)
RECURSIVE PreOrderAll(_, _)
PreOrder(g, h) == <<h>> \o PreOrderAll(g, base_of(g, h).children)

PreOrderAll(g, children) ==
    IF children = <<>> THEN <<>>
    ELSE PreOrder(g, Head(children)) \o PreOrderAll(g, Tail(children))

\* C24: find_by_name(from, name) returns NONE exactly when no entity in the
\* subtree of from has that exact name; otherwise it returns the handle of
\* the first such entity in depth-first pre-order with the children in their
\* stored order, a handle that lies inside the subtree of from.
C24_FindByNameFirstInPreOrder ==
    (last.op = "find_by_name" /\ IsTree(graph)) =>
        LET from == last.a
            name == SearchNames[last.n]
            order == PreOrder(graph, from)
            matches == { i \in 1..Len(order) : base_of(graph, order[i]).name = name }
        IN /\ status = "ok"
           /\ Elems(order) = Subtree(graph, from)
           /\ is_none(last.b) =
                 (\A h \in Subtree(graph, from) : base_of(graph, h).name # name)
           /\ matches # {} =>
                 /\ last.b = order[CHOOSE i \in matches : \A j \in matches : i <= j]
                 /\ last.b \in Subtree(graph, from)

\* C24 witness: a search from an entity other than the root found an entity
\* below it, in front of another entity of that name that was added earlier.
C24_Witness ==
    /\ status = "ok"
    /\ last.op = "find_by_name"
    /\ last.a # graph.root
    /\ is_some(last.b)
    /\ last.b # last.a
    /\ \E h \in Subtree(graph, last.a) \ {last.b} :
          /\ base_of(graph, h).name = base_of(graph, last.b).name
          /\ h.index < last.b.index

\* ------------------------------------------------------------------ copy and lookup

\* The handle the last copy_node call on dest returned: the clone it made is
\* the last child of dest's root.
LastCopy ==
    LET children == base_of(dest, dest.root).children
    IN children[Len(children)]

\* dest_graph.find_copy_of(r, t), r the handle the last copy_node call
\* returned; the call's second handle is the one returned.
FindCopyOf(t) ==
    /\ Ready
    /\ base_of(dest, dest.root).children # <<>>
    /\ LET r == find_copy_of(dest, LastCopy, t, pool_get_capacity(dest.pool) + 1)
       IN /\ status' = r.status
          /\ last' = Op("find_copy_of", t, r.out, 0)
    /\ UNCHANGED graph
    /\ UNCHANGED sceneVars
    /\ UNCHANGED otherVars

\* A tree is built in the graph; then subtrees of it are copied into the
\* destination graph and handles are looked up in the last copy: handles of
\* the source graph, live or not, and handles of the destination graph.
NextRoundTrip ==
    \/ \E node \in CopyNodes :
          /\ pool_alive_count(dest.pool) = 1
          /\ pool_spawn_count(graph.pool) < MaxDataNodes
          /\ AddNode(node)
    \/ /\ pool_alive_count(dest.pool) = 1
       /\ \E c \in LiveHandles \ {graph.root} :
             \E p \in LiveHandles \ Subtree(graph, c) : LinkNodes(c, p)
    \/ \E h \in LiveHandles :
          /\ pool_spawn_count(dest.pool) + Cardinality(Subtree(graph, h)) <= MaxSpawns
          /\ CopyNode(h)
    \/ \E t \in LiveHandles \cup StaleHandles \cup pool_handles(dest.pool) :
          FindCopyOf(t)

SpecRoundTrip == Init /\ [][NextRoundTrip]_vars

\* C25: after r = src.copy_node(h, dest), dest.find_copy_of(r, s) returns,
\* for every entity s of the subtree of h in src, the handle of the clone of
\* s in dest, and NONE for a handle other than NONE that is the source of no
\* clone of that copy.
C25_FindCopyOfAfterCopy ==
    last.op = "find_copy_of" =>
        LET r == LastCopy
            h == base_of(dest, r).original
            t == last.a
        IN /\ status = "ok"
           /\ t \in Subtree(graph, h) =>
                 /\ last.b \in Subtree(dest, r)
                 /\ base_of(dest, last.b).original = t
                 /\ Carried(base_of(dest, last.b)) = Carried(base_of(graph, t))
                 /\ \A d \in Subtree(dest, r) \ {last.b} : base_of(dest, d).original # t
           /\ (t \notin Subtree(graph, h) /\ t # NONE) => last.b = NONE

\* C25 witness: a lookup in a copy of two entities found the clone of the
\* child, whose handle in dest is not the handle of its source.
C25_Witness ==
    /\ status = "ok"
    /\ last.op = "find_copy_of"
    /\ is_some(last.b)
    /\ last.b # last.a
    /\ last.b # LastCopy
    /\ base_of(dest, last.b).original = last.a

\* A lookup of a live entity of the source graph outside the copied subtree
\* came back with NONE.
C25_OutsideIsNone ==
    /\ status = "ok"
    /\ last.op = "find_copy_of"
    /\ is_valid_handle(graph, last.a)
    /\ is_none(last.b)
    /\ last.a # graph.root

\* ------------------------------------------------------------------ bones of a copy

\* The node a caller adds to a graph of skinned meshes: a mesh with one
\* surface that has no bones yet.
MeshNodes ==
    { [DefaultBase EXCEPT !.kind = "Mesh",
                          !.surfaces = <<[data |-> "skin", bones |-> <<>>]>>] }

\* The live handles of g in slot order, from slot i on.
RECURSIVE HandlesFrom(_, _)
HandlesFrom(g, i) ==
    IF i > pool_get_capacity(g.pool) THEN <<>>
    ELSE IF IsSomeOpt(pool_at(g.pool, i))
    THEN <<pool_handle_from_index(g.pool, i)>> \o HandlesFrom(g, i + 1)
    ELSE HandlesFrom(g, i + 1)

\* The caller gives the surface of the mesh h its bones, through
\* Graph::get_mut: every live entity of the graph, in slot order.
SetBones(h) ==
    /\ Ready
    /\ base_of(graph, h).kind = "Mesh"
    /\ base_of(graph, h).surfaces[1].bones = <<>>
    /\ Commit(Exec(set_base(graph, h,
                 [base_of(graph, h) EXCEPT !.surfaces[1].bones = HandlesFrom(graph, 1)])),
              Op("set_bones", h, NONE, 0))
    /\ UNCHANGED sceneVars
    /\ UNCHANGED otherVars

\* A tree of meshes is built and meshes get bones; then subtrees are copied
\* into the destination graph.
NextBones ==
    \/ \E node \in MeshNodes :
          /\ pool_alive_count(dest.pool) = 1
          /\ pool_spawn_count(graph.pool) < MaxDataNodes
          /\ AddNode(node)
    \/ /\ pool_alive_count(dest.pool) = 1
       /\ \E c \in LiveHandles \ {graph.root} :
             \E p \in LiveHandles \ Subtree(graph, c) : LinkNodes(c, p)
    \/ \E h \in LiveHandles : pool_alive_count(dest.pool) = 1 /\ SetBones(h)
    \/ \E h \in LiveHandles :
          /\ pool_spawn_count(dest.pool) + Cardinality(Subtree(graph, h)) <= MaxSpawns
          /\ CopyNode(h)

SpecBones == Init /\ [][NextBones]_vars

\* C26: in copy_node, every bone handle of a cloned mesh surface that refers
\* to a source entity inside the copied subtree is replaced, exactly once, by
\* the handle of that entity's clone in the destination graph, and every
\* bone handle that refers to an entity outside the copied subtree is left
\* unchanged; no bone handle is remapped a second time, even when a
\* destination handle equals a source handle of the mapping.
C26_BonesRemappedOnce ==
    [][ last'.op = "copy_node" =>
            LET S == Subtree(graph, last'.a)
                New == pool_handles(dest'.pool) \ pool_handles(dest.pool)
                F(s) == CHOOSE d \in New : base_of(dest', d).original = s
            IN /\ status' = "ok"
               /\ \A s \in S : \E d \in New : base_of(dest', d).original = s
               /\ \A s \in S :
                     LET mine == base_of(dest', F(s)).surfaces
                         theirs == base_of(graph, s).surfaces
                     IN /\ base_of(dest', F(s)).kind = base_of(graph, s).kind
                        /\ Len(mine) = Len(theirs)
                        /\ \A i \in 1..Len(theirs) :
                              /\ mine[i].data = theirs[i].data
                              /\ mine[i].bones =
                                    [k \in 1..Len(theirs[i].bones) |->
                                        IF theirs[i].bones[k] \in S
                                        THEN F(theirs[i].bones[k])
                                        ELSE theirs[i].bones[k]]
               /\ \A d \in pool_handles(dest.pool) :
                     base_of(dest', d).surfaces = base_of(dest, d).surfaces ]_vars

\* C26 witness: copy_node has copied a mesh whose bones are an entity
\* outside the subtree and two inside; one of the new handles is also the
\* handle of a source entity with a clone of its own, and is in the clone's
\* bones as it stands.
C26_Witness ==
    /\ status = "ok"
    /\ last.op = "copy_node"
    /\ is_valid_handle(dest, last.b)
    /\ base_of(dest, last.b).kind = "Mesh"
    /\ LET bones == base_of(dest, last.b).surfaces[1].bones
           S == Subtree(graph, last.a)
       IN /\ Len(bones) = 3
          /\ bones[1] = graph.root
          /\ graph.root \notin S
          /\ \E k \in 2..3 :
                /\ bones[k] \in S
                /\ base_of(dest, bones[k]).original # bones[k]
                /\ \E d \in Subtree(dest, last.b) :
                      d # bones[k] /\ base_of(dest, d).original = bones[k]

\* ------------------------------------------------------------------ animations and deletion

\* A scene with animations whose nodes may expire: nodes are added and
\* animations made for live nodes, Scene::remove_node is called with valid
\* handles and Scene::update runs its three stages.
NextExpiry ==
    \/ \E node \in SceneNodes :
          pool_spawn_count(graph.pool) < MaxDataNodes /\ AddNode(node)
    \/ \E tracks \in LiveTracks :
          Len(animations) < MaxFrameAnimations /\ AddAnimation(tracks)
    \/ \E h \in LiveHandles \ {graph.root} : SceneRemoveNode(h)
    \/ UpdatePhysics(1, {0})
    \/ UpdateAnimations
    \/ UpdateGraph

SpecExpiry == Init /\ [][NextExpiry]_vars

\* The animations with a track for an entity that is not alive.
Dangling ==
    { k \in 1..Len(animations) :
        \E h \in Targets(animations[k]) : ~is_valid_handle(graph, h) }

\* C27: after Scene.remove_node and after Scene.update, entities removed
\* because their lifetime expired included, no remaining animation has a
\* track whose node handle refers to an entity that was deleted.
C27_NoAnimationOfDeletedEntity ==
    (status = "ok" /\ pc = "idle" /\ last.op \in {"scene_remove_node", "update"}) =>
        Dangling = {}

\* The part of C27 that holds: Scene.remove_node leaves no animation with a
\* track for an entity it deleted, and the animations that Scene.update
\* leaves dangling are the ones made for what the expiry scan removed.
C27_OnlyExpiryLeavesDangling ==
    [][ /\ last'.op = "scene_remove_node" =>
              \A k \in 1..Len(animations') :
                 Targets(animations'[k]) \cap Subtree(graph, last'.a) = {}
        /\ last'.op = "update" =>
              /\ animations' = animations
              /\ \A k \in 1..Len(animations) :
                    \A h \in Targets(animations[k]) :
                       (is_valid_handle(graph, h) /\ ~is_valid_handle(graph', h)) =>
                           \E x \in Expiring(graph, last'.n) : h \in Subtree(graph, x) ]_vars

\* ------------------------------------------------------------------ expiry scan

\* The slots on the free stack of g2 that were not on the one of g.
NewlyFreed(g, g2) ==
    SubSeq(g2.pool.free_stack, Len(g.pool.free_stack) + 1, Len(g2.pool.free_stack))

\* C28: the expiry scan of update_nodes never dereferences or frees an
\* entity that is freed already: for every tree and every assignment of
\* lifetimes to the entities other than the root, an ancestor and a
\* descendant that expire in the same pass included, update_nodes completes
\* without a fatal stop and frees each removed entity exactly once.
C28_ExpiryScanFreesOnce ==
    [][ last'.op = "update_nodes" =>
            LET removed == pool_handles(graph.pool) \ pool_handles(graph'.pool)
                freed == NewlyFreed(graph, graph')
            IN /\ status' = "ok"
               /\ Len(graph'.pool.free_stack) >= Len(graph.pool.free_stack)
               /\ SubSeq(graph'.pool.free_stack, 1, Len(graph.pool.free_stack))
                     = graph.pool.free_stack
               /\ Elems(freed) = { h.index : h \in removed }
               /\ \A i \in Elems(freed) : Count(freed, i) = 1
               /\ \A i \in Elems(freed) : Count(graph.pool.free_stack, i) = 0
               /\ pool_get_capacity(graph'.pool) = pool_get_capacity(graph.pool)
               /\ \A i \in 1..pool_get_capacity(graph.pool) :
                     graph'.pool.records[i].generation = graph.pool.records[i].generation
               /\ graph'.stack = <<>> ]_vars

\* C28 witness: update_nodes has removed an entity and an ancestor of it
\* that expired in the same pass, the ancestor in the lower slot; both are
\* on the free stack once.
C28_Witness ==
    /\ status = "ok"
    /\ last.op = "update_nodes"
    /\ is_some(last.a)
    /\ last.b.index < last.a.index
    /\ ~is_valid_handle(graph, last.a)
    /\ ~is_valid_handle(graph, last.b)
    /\ Count(graph.pool.free_stack, last.a.index) = 1
    /\ Count(graph.pool.free_stack, last.b.index) = 1

\* The other case: the descendant was in the lower slot.
C28_DescendantFirst ==
    /\ status = "ok"
    /\ last.op = "update_nodes"
    /\ is_some(last.a)
    /\ last.a.index < last.b.index
    /\ Count(graph.pool.free_stack, last.a.index) = 1
    /\ Count(graph.pool.free_stack, last.b.index) = 1

\* ------------------------------------------------------------ renderer State

\* State calls in one run.
MaxSetterCalls == 2

\* A State call with outcome r: the cache and the driver take the outcome,
\* a fatal stop ends the run.
StateCall(name, arg, r) ==
    /\ status = "ok"
    /\ call.n < MaxSetterCalls
    /\ state' = r.state
    /\ driver' = r.calls
    /\ status' = r.status
    /\ call' = [setter |-> name, arg |-> arg, n |-> call.n + 1]
    /\ UNCHANGED <<graph, sceneVars, dest, visitor, iter, last>>

\* Every method of State, called with the value its cached field has after
\* State::new and with at least one other value.
NextState ==
    \/ \E x \in {0, 1} :
          StateCall("set_framebuffer", x, set_framebuffer(state, x))
    \/ \E x \in {[x |-> 0, y |-> 0, w |-> 1, h |-> 1], [x |-> 0, y |-> 0, w |-> 2, h |-> 2]} :
          StateCall("set_viewport", x, set_viewport(state, x))
    \/ \E x \in BOOLEAN :
          StateCall("set_blend", x, set_blend(state, x))
    \/ \E x \in BOOLEAN :
          StateCall("set_depth_test", x, set_depth_test(state, x))
    \/ \E x \in BOOLEAN :
          StateCall("set_depth_write", x, set_depth_write(state, x))
    \/ \E x \in {ColorMask_default, ColorMask_all(FALSE)} :
          StateCall("set_color_write", x, set_color_write(state, x))
    \/ \E x \in BOOLEAN :
          StateCall("set_stencil_test", x, set_stencil_test(state, x))
    \/ \E x \in {"Back", "Front"} :
          StateCall("set_cull_face", x, set_cull_face(state, x))
    \/ \E x \in BOOLEAN :
          StateCall("set_culling", x, set_culling(state, x))
    \/ \E x \in {"0xFFFF_FFFF", "0x0000_00FF"} :
          StateCall("set_stencil_mask", x, set_stencil_mask(state, x))
    \/ \E x \in {<<0, 0, 0, 0>>, <<255, 0, 0, 255>>} :
          StateCall("set_clear_color", x, set_clear_color(state, x))
    \/ \E x \in {"1.0", "0.5", NaN} :
          StateCall("set_clear_depth", x, set_clear_depth(state, x))
    \/ \E x \in {0, 1} :
          StateCall("set_clear_stencil", x, set_clear_stencil(state, x))
    \/ \E x \in {<<"ONE", "ZERO">>, <<"SRC_ALPHA", "ZERO">>, <<"ONE", "ONE">>} :
          StateCall("set_blend_func", x, set_blend_func(state, x[1], x[2]))
    \/ \E x \in {0, 1} :
          StateCall("set_program", x, set_program(state, x))
    \/ \E x \in {<<0, "TEXTURE_2D", 0>>, <<0, "TEXTURE_2D", 1>>,
                  <<TextureUnits - 1, "TEXTURE_CUBE_MAP", 1>>,
                  <<TextureUnits, "TEXTURE_2D", 1>>} :
          StateCall("set_texture", x, set_texture(state, x[1], x[2], x[3]))
    \/ \E x \in {StencilFunc_default,
                  [func |-> "EQUAL", ref_value |-> 1, mask |-> "0xFFFF_FFFF"]} :
          StateCall("set_stencil_func", x, set_stencil_func(state, x))
    \/ \E x \in {StencilOp_default, [fail |-> "KEEP", zfail |-> "KEEP", zpass |-> "REPLACE"]} :
          StateCall("set_stencil_op", x, set_stencil_op(state, x))
    \/ StateCall("invalidate_resource_bindings_cache", <<>>,
                 invalidate_resource_bindings_cache(state))
    \/ \E b \in BOOLEAN :
          LET x == [blend |-> b, depth_test |-> b, depth_write |-> TRUE,
                    color_write |-> ColorMask_default, stencil_test |-> FALSE,
                    cull_face |-> "Back", culling |-> b]
          IN StateCall("apply_draw_parameters", x, apply_draw_parameters(state, x))

SpecState == Init /\ [][NextState]_vars

\* The cached field or fields each setter is for; set_texture is for one
\* element of texture_units.
OwnFields ==
    [ set_framebuffer   |-> {"framebuffer"},
      set_viewport      |-> {"viewport"},
      set_blend         |-> {"blend"},
      set_depth_test    |-> {"depth_test"},
      set_depth_write   |-> {"depth_write"},
      set_color_write   |-> {"color_write"},
      set_stencil_test  |-> {"stencil_test"},
      set_cull_face     |-> {"cull_face"},
      set_culling       |-> {"culling"},
      set_stencil_mask  |-> {"stencil_mask"},
      set_clear_color   |-> {"clear_color"},
      set_clear_depth   |-> {"clear_depth"},
      set_clear_stencil |-> {"clear_stencil"},
      set_blend_func    |-> {"blend_src_factor", "blend_dst_factor"},
      set_program       |-> {"program"},
      set_texture       |-> {"texture_units"},
      set_stencil_func  |-> {"stencil_func"},
      set_stencil_op    |-> {"stencil_op"} ]

Setters == DOMAIN OwnFields

\* The cached value a setter call c compares its argument with, in the shape
\* of the argument; a sampler index without a texture unit has none.
CachedValue(st, c) ==
    CASE c.setter = "set_blend_func" -> <<st.blend_src_factor, st.blend_dst_factor>>
      [] c.setter = "set_texture" ->
            LET unit == IF c.arg[1] \in DOMAIN st.texture_units
                        THEN st.texture_units[c.arg[1]]
                        ELSE [target |-> "NO_UNIT", texture |-> -1]
            IN <<c.arg[1], unit.target, unit.texture>>
      [] OTHER -> st[CHOOSE f \in OwnFields[c.setter] : TRUE]

\* The setter call c left every cached field other than its own as it was.
OthersUntouched(st, st2, c) ==
    /\ \A f \in (DOMAIN st) \ OwnFields[c.setter] : st2[f] = st[f]
    /\ c.setter = "set_texture" =>
          \A i \in DOMAIN st.texture_units : i # c.arg[1] => st2.texture_units[i] = st.texture_units[i]

\* The call before this one was the same setter with the same argument.
SameCallTwice == call.setter = call'.setter /\ call.arg = call'.arg

\* C29 as stated: for every setter of the render State cache a driver call
\* is issued exactly when the argument differs from the cached value, after
\* the call the cached value equals the argument, the same setter called
\* twice in a row with the same argument issues at most one driver call in
\* all, and a setter touches no cached field other than its own.
C29_SetterIssuesOneCallWhenDifferent ==
    [][ call'.setter \in Setters =>
            /\ status' = "ok"
            /\ (driver' # <<>>) <=> (CachedValue(state, call') # call'.arg)
            /\ CachedValue(state', call') = call'.arg
            /\ SameCallTwice => Len(driver) + Len(driver') <= 1
            /\ OthersUntouched(state, state', call') ]_vars

\* C29, amended: for every setter of the render State cache driver calls are
\* issued exactly when the argument compares unequal (`!=`) to the cached
\* value, and after the call the cached value is the argument; what is
\* issued is one driver call, except that set_texture issues two
\* (ActiveTexture for the unit, then BindTexture) and stops fatally, with
\* the cache as it was and no driver call, for a sampler index of 32 or
\* more; so the second of two calls in a row of a setter with the same
\* argument issues none, except set_clear_depth with a NaN, which compares
\* unequal to itself and issues ClearDepth on every call; and a setter
\* touches no cached field other than its own.
C29_SetterIssuesCallsWhenUnequal ==
    [][ call'.setter \in Setters =>
            LET c == call'
                cached == CachedValue(state, c)
                nan == c.setter = "set_clear_depth" /\ c.arg = NaN
                unequal == IF c.setter = "set_clear_depth" /\ NaN \in {cached, c.arg}
                           THEN TRUE
                           ELSE cached # c.arg
            IN IF c.setter = "set_texture" /\ c.arg[1] >= TextureUnits
               THEN status' = "panicked" /\ state' = state /\ driver' = <<>>
               ELSE /\ status' = "ok"
                    /\ (driver' # <<>>) <=> unequal
                    /\ CachedValue(state', c) = c.arg
                    /\ driver' # <<>> =>
                          Len(driver') = IF c.setter = "set_texture" THEN 2 ELSE 1
                    /\ c.setter = "set_texture" /\ driver' # <<>> =>
                          /\ driver'[1].fn = "ActiveTexture"
                          /\ driver'[2].fn = "BindTexture"
                    /\ (SameCallTwice /\ ~nan) => driver' = <<>>
                    /\ nan => driver' = <<Gl("ClearDepth", <<NaN>>)>>
                    /\ OthersUntouched(state, state', c) ]_vars

\* C29 witness: set_texture was called twice in a row for the last texture
\* unit with the same target and texture, other than the cached ones; the
\* second call issued no driver call and the unit caches the argument.
C29_Witness ==
    /\ status = "ok"
    /\ call.setter = "set_texture"
    /\ call.n = 2
    /\ call.arg = <<TextureUnits - 1, "TEXTURE_CUBE_MAP", 1>>
    /\ state.texture_units[TextureUnits - 1] = [target |-> "TEXTURE_CUBE_MAP", texture |-> 1]
    /\ state_new.texture_units[TextureUnits - 1] # state.texture_units[TextureUnits - 1]
    /\ driver = <<>>

\* The first of the two calls: it issued two driver calls.
C29_TextureIssuesTwo ==
    /\ call.setter = "set_texture"
    /\ call.n = 1
    /\ Len(driver) = 2

\* set_clear_depth with a NaN, twice in a row: the second call issued
\* ClearDepth again.
C29_NaNIssuesEveryTime ==
    /\ call.setter = "set_clear_depth"
    /\ call.n = 2
    /\ call.arg = NaN
    /\ state.clear_depth = NaN
    /\ driver = <<Gl("ClearDepth", <<NaN>>)>>

\* set_texture for a sampler index that has no texture unit stopped fatally.
C29_NoSuchUnitStops ==
    /\ status = "panicked"
    /\ call.setter = "set_texture"
    /\ call.arg[1] = TextureUnits
    /\ driver = <<>>

====
